---- MODULE Spec2Model ----
(***************************************************************************)
(* A model of the gmail-filter-agent:                                       *)
(*   - parse_relative_date and convert_natural_language_to_gmail_query     *)
(*     (src/tools/gmail_tools.py), specification Spec;                     *)
(*   - extract_amounts_from_text (src/tools/parser_tools.py),              *)
(*     specification SpecExtract;                                          *)
(*   - the calls on email records (parser_tools.py), SpecAmounts;          *)
(*   - export_emails_to_csv (export_tools.py), SpecExport, SpecSession;    *)
(*   - extract_body and has_attachment_check, SpecPayload;                 *)
(*   - get_gmail_service, SpecAuth; search_gmail, SpecSearch and, with     *)
(*     fairness, SpecSearchFair;                                           *)
(*   - the tool implementations and handle_tool_call, SpecTools;           *)
(*   - a turn of run_agent_interactive (src/agent.py), SpecChat.           *)
(* Text is a sequence of one-character strings.  A datetime is a record    *)
(* [ord, tod]: the proleptic Gregorian ordinal of its day (0001-01-01 is   *)
(* 1, as in Python's datetime) and a coarse time-of-day slot.              *)
(***************************************************************************)
EXTENDS Integers, Sequences, FiniteSets, TLC

VARIABLES
    clock,      \* the wall clock datetime.now() reads
    padYear,    \* whether the platform's strftime zero-pads %Y below 1000
    op,         \* the operation performed last
    expr,       \* parse_relative_date: the date_str argument
    base,       \* the same expression in lower case, without outer whitespace
    outcome,    \* parse_relative_date: what the call returned or raised
    callNow,    \* the clock when the last operation was entered
    intent,     \* convert_natural_language_to_gmail_query: its arguments
    afterOut,   \* ... the outcome of parse_relative_date(after_date)
    beforeOut,  \* ... the outcome of parse_relative_date(before_date)
    query,      \* ... what the call returned or raised
    text,       \* extract_amounts_from_text: the text argument
    groups,     \* ... match.group(1) of its matches, pattern by pattern
    amounts,    \* extract_amounts_from_text: the returned list
    emails,     \* the caller's list of email records when the call is made
    range,      \* min_amount and max_amount of the call
    result,     \* what the call on the records returned or raised
    emailsAfter, \* the caller's list of email records after the call
    payloadArg,  \* extract_body, has_attachment_check: the payload argument
    filesWritten, \* the paths of the files the exports so far have written
    tokenFile,   \* get_gmail_service: what token.json holds
    authPc,      \* ... where the call stands
    creds,       \* ... its local variable creds
    tokenLoaded, \* ... creds as loaded from token.json by this call
    authLog,     \* ... what this call did so far, in order
    service,     \* ... the credentials the returned service was built with
    searchPc,    \* search_gmail: where the call stands
    max_results, \* ... its max_results argument
    resultsLen,  \* ... len(results)
    page_token,  \* ... whether page_token holds a token
    request,     \* ... maxResults of the list request in flight, if any
    messagesLeft, \* ... messages of the current page the loop has yet to take
    nextPageToken, \* ... whether the current response carries nextPageToken
    listCalls,   \* ... the list requests issued so far
    turnPc,      \* run_agent_interactive: where the user's turn stands
    response,    \* ... the function calls of its variable response
    loopCalls,   \* ... the function calls the for loop has yet to take
    issued,      \* ... the function calls the agent issued in this turn
    executed     \* ... the calls run by handle_tool_call and answered

vars == <<clock, padYear, op, expr, base, outcome, callNow, intent,
          afterOut, beforeOut, query, text, groups, amounts, emails, range,
          result, emailsAfter, payloadArg,
          filesWritten, tokenFile, authPc, creds, tokenLoaded, authLog,
          service, searchPc, max_results, resultsLen, page_token, request,
          messagesLeft, nextPageToken, listCalls, turnPc, response,
          loopCalls, issued, executed>>

\* the variables of the calls on email records
mail == <<emails, range, result, emailsAfter>>

\* the variables of the calls on Gmail messages
remote == <<payloadArg, filesWritten>>

\* the variables of get_gmail_service
authVars == <<tokenFile, authPc, creds, tokenLoaded, authLog, service>>

\* the variables of the operations that take several steps
\* the variables of search_gmail
searchVars == <<searchPc, max_results, resultsLen, page_token, request,
                messagesLeft, nextPageToken, listCalls>>

\* the variables of a turn of run_agent_interactive
turnVars == <<turnPc, response, loopCalls, issued, executed>>

stepwise == <<authVars, searchVars, turnVars>>

(***************************************************************************)
(* Bounds of the model.                                                    *)
(***************************************************************************)
MaxWords == 3        \* words in a generated date expression
MaxClockSlots == 2   \* slots the clock may advance in a whole behaviour
SlotsPerDay == 2     \* time-of-day slots in a day
MaxTokens == 3       \* tokens in a generated text
MaxBatch == 2        \* email records in a batch
MaxParts == 2        \* parts of a multipart payload of the model
MaxPages == 3        \* pages the provider hands out with a continuation token
MaxCalls == 2        \* function calls in one response of the agent
MaxIssued == 3       \* function calls the agent issues in one turn

(***************************************************************************)
(* Characters and text.                                                    *)
(***************************************************************************)
None == <<"None">>   \* Python's None (no text is a one-element sequence
                     \* holding a four-character string)

Digits == <<"0", "1", "2", "3", "4", "5", "6", "7", "8", "9">>

UpperCase == <<"A", "B", "C", "D", "E", "F", "G", "H", "I", "J", "K", "L", "M",
               "N", "O", "P", "Q", "R", "S", "T", "U", "V", "W", "X", "Y", "Z">>

LowerCase == <<"a", "b", "c", "d", "e", "f", "g", "h", "i", "j", "k", "l", "m",
               "n", "o", "p", "q", "r", "s", "t", "u", "v", "w", "x", "y", "z">>

Whitespace == {" ", "\t", "\n"}

IsDigit(c) == \E i \in 1..10 : Digits[i] = c

DigitVal(c) == (CHOOSE i \in 1..10 : Digits[i] = c) - 1

DigitChar(n) == Digits[n + 1]

\* str.lower() on one character
LowerChar(c) ==
    IF \E i \in 1..26 : UpperCase[i] = c
    THEN LowerCase[CHOOSE i \in 1..26 : UpperCase[i] = c]
    ELSE c

\* str.upper() on one character
UpperChar(c) ==
    IF \E i \in 1..26 : LowerCase[i] = c
    THEN UpperCase[CHOOSE i \in 1..26 : LowerCase[i] = c]
    ELSE c

Lower(s) == [i \in 1..Len(s) |-> LowerChar(s[i])]

Upper(s) == [i \in 1..Len(s) |-> UpperChar(s[i])]

\* str.strip(): leading and trailing whitespace removed
Strip(s) ==
    LET keep == {i \in 1..Len(s) : s[i] \notin Whitespace}
    IN  IF keep = {} THEN <<>>
        ELSE LET lo == CHOOSE i \in keep : \A j \in keep : i <= j
                 hi == CHOOSE i \in keep : \A j \in keep : j <= i
             IN  SubSeq(s, lo, hi)

\* Python's `sub in s`
Contains(sub, s) ==
    \E i \in 1..(Len(s) - Len(sub) + 1) : SubSeq(s, i, i + Len(sub) - 1) = sub

\* ''.join(filter(str.isdigit, s))
FilterDigits(s) == SelectSeq(s, IsDigit)

\* the value of a non-empty string of decimal digits
RECURSIVE DigitsValue(_)
DigitsValue(ds) ==
    IF ds = <<>> THEN 0
    ELSE 10 * DigitsValue(SubSeq(ds, 1, Len(ds) - 1)) + DigitVal(ds[Len(ds)])

\* the decimal digits of n >= 0, without padding
RECURSIVE NatToText(_)
NatToText(n) ==
    IF n < 10 THEN <<DigitChar(n)>>
    ELSE NatToText(n \div 10) \o <<DigitChar(n % 10)>>

\* n in at least w digits, zero-padded on the left
RECURSIVE ZeroPad(_, _)
ZeroPad(n, w) ==
    LET t == NatToText(n)
    IN  IF Len(t) >= w THEN t
        ELSE [i \in 1..w |-> IF i <= w - Len(t) THEN "0" ELSE t[i - (w - Len(t))]]

\* sep.join(parts)
RECURSIVE Join(_, _)
Join(sep, parts) ==
    IF parts = <<>> THEN <<>>
    ELSE IF Len(parts) = 1 THEN parts[1]
    ELSE parts[1] \o sep \o Join(sep, Tail(parts))

(***************************************************************************)
(* The calendar of Python's datetime: proleptic Gregorian ordinals.        *)
(***************************************************************************)
MinOrdinal == 1          \* 0001-01-01
MaxOrdinal == 3652059    \* 9999-12-31
MaxDeltaDays == 999999999

IsLeap(y) == y % 4 = 0 /\ (y % 100 # 0 \/ y % 400 = 0)

DaysInMonth(y, m) ==
    IF m = 2 THEN (IF IsLeap(y) THEN 29 ELSE 28)
    ELSE IF m \in {4, 6, 9, 11} THEN 30 ELSE 31

RECURSIVE DaysBeforeMonth(_, _)
DaysBeforeMonth(y, m) ==
    IF m = 1 THEN 0 ELSE DaysBeforeMonth(y, m - 1) + DaysInMonth(y, m - 1)

DaysBeforeYear(y) ==
    (y - 1) * 365 + (y - 1) \div 4 - (y - 1) \div 100 + (y - 1) \div 400

ValidYmd(y, m, d) ==
    /\ y \in 1..9999
    /\ m \in 1..12
    /\ d >= 1
    /\ d <= DaysInMonth(y, m)

Ymd2Ord(y, m, d) == DaysBeforeYear(y) + DaysBeforeMonth(y, m) + d

\* the year, month and day of an ordinal
Ord2Ymd(n) ==
    LET n0   == n - 1
        n400 == n0 \div 146097
        r400 == n0 % 146097
        n100 == r400 \div 36524
        r100 == r400 % 36524
        n4   == r100 \div 1461
        r4   == r100 % 1461
        n1   == r4 \div 365
        r1   == r4 % 365
        y    == n400 * 400 + n100 * 100 + n4 * 4 + n1 + 1
    IN  IF n1 = 4 \/ n100 = 4
        THEN [y |-> y - 1, m |-> 12, d |-> 31]
        ELSE LET m == CHOOSE k \in 1..12 :
                          /\ DaysBeforeMonth(y, k) <= r1
                          /\ r1 < DaysBeforeMonth(y, k) + DaysInMonth(y, k)
             IN  [y |-> y, m |-> m, d |-> r1 - DaysBeforeMonth(y, m) + 1]

(***************************************************************************)
(* What a call returns or raises.  kind is "date" for a returned datetime  *)
(* and the name of the exception class otherwise.                          *)
(***************************************************************************)
DateOut(o, t) == [kind |-> "date", ord |-> o, tod |-> t]

Raised(k) == [kind |-> k, ord |-> 0, tod |-> 0]

NotCalled == [kind |-> "none", ord |-> 0, tod |-> 0]

\* datetime.now() - timedelta(days=n): both the timedelta constructor and
\* the subtraction raise OverflowError outside their ranges
MinusDays(now, n) ==
    IF n > MaxDeltaDays THEN Raised("OverflowError")
    ELSE IF now.ord - n < MinOrdinal \/ now.ord - n > MaxOrdinal
         THEN Raised("OverflowError")
         ELSE DateOut(now.ord - n, now.tod)

(***************************************************************************)
(* date_parser.parse (dateutil) on the texts of this model: three numeric  *)
(* fields separated twice by the same "-" or "/" are resolved as dateutil  *)
(* resolves them; a text holding a word dateutil does not know (every      *)
(* other text of the model) raises ValueError.  The result is at midnight. *)
(***************************************************************************)
Separators == {"-", "/"}

\* the three fields of digits{1,4} sep digits{1,2} sep digits{1,2}, or <<>>
NumericFields(s) ==
    LET seps == {i \in 1..Len(s) : s[i] \in Separators}
    IN  IF Cardinality(seps) # 2 \/ \E i \in 1..Len(s) : i \notin seps /\ ~IsDigit(s[i])
        THEN <<>>
        ELSE LET p == CHOOSE i \in seps : \A j \in seps : i <= j
                 q == CHOOSE i \in seps : \A j \in seps : j <= i
                 f1 == SubSeq(s, 1, p - 1)
                 f2 == SubSeq(s, p + 1, q - 1)
                 f3 == SubSeq(s, q + 1, Len(s))
             IN  IF /\ s[p] = s[q]
                    /\ Len(f1) \in 1..4
                    /\ Len(f2) \in 1..2
                    /\ Len(f3) \in 1..2
                 THEN <<f1, f2, f3>>
                 ELSE <<>>

\* parserinfo.convertyear for a year whose century was not written
ConvertYear(y, nowYear) ==
    LET c == y + (nowYear \div 100) * 100
    IN  IF y >= 100 THEN y
        ELSE IF c >= nowYear + 50 THEN c - 100
        ELSE IF c < nowYear - 50 THEN c + 100
        ELSE c

AbsParse(s, now) ==
    LET f == NumericFields(s)
    IN  IF f = <<>> THEN Raised("ValueError")
        ELSE LET a == DigitsValue(f[1])
                 b == DigitsValue(f[2])
                 c == DigitsValue(f[3])
                 nowYear == Ord2Ymd(now.ord).y
                 written == Len(f[1]) > 2     \* the century is specified
                 ymd == IF written \/ a > 31
                        THEN [y |-> a, m |-> b, d |-> c]
                        ELSE IF a > 12
                        THEN [y |-> c, m |-> b, d |-> a]
                        ELSE [y |-> c, m |-> a, d |-> b]
                 year == IF written THEN ymd.y ELSE ConvertYear(ymd.y, nowYear)
             IN  IF ValidYmd(year, ymd.m, ymd.d)
                 THEN DateOut(Ymd2Ord(year, ymd.m, ymd.d), 0)
                 ELSE Raised("ValueError")

(***************************************************************************)
(* parse_relative_date(date_str), with `now` the value datetime.now()      *)
(* returns during the call.                                                *)
(***************************************************************************)
T_ago == <<"a", "g", "o">>
T_last == <<"l", "a", "s", "t">>
T_day == <<"d", "a", "y">>
T_week == <<"w", "e", "e", "k">>
T_month == <<"m", "o", "n", "t", "h">>
T_yesterday == <<"y", "e", "s", "t", "e", "r", "d", "a", "y">>
T_today == <<"t", "o", "d", "a", "y">>

\* str.strip() without .lower()
StripOnly(s) == Strip(s)

\* str.strip().lower()
Normalize(s) == Lower(Strip(s))

\* int(''.join(filter(str.isdigit, date_str))) raises ValueError on ''
HasDigits(s) == FilterDigits(s) # <<>>

\* the leading run of digits in place of all digits
RECURSIVE LeadingDigits(_)
LeadingDigits(s) ==
    IF s = <<>> \/ ~IsDigit(Head(s)) THEN <<>>
    ELSE <<Head(s)>> \o LeadingDigits(Tail(s))

RECURSIVE FromFirstDigit(_)
FromFirstDigit(s) ==
    IF s = <<>> \/ IsDigit(Head(s)) THEN s ELSE FromFirstDigit(Tail(s))

CountOfFirstRun(s) == DigitsValue(LeadingDigits(FromFirstDigit(s)))

CountOf(s) == DigitsValue(FilterDigits(s))

\* the number of days in one unit
DayUnit == 1
WeekUnit == 7
MonthUnit == 30

\* lines 229-239: the literals, then absolute parsing
ParseLiteralOrAbsolute(s, now) ==
    IF s = T_yesterday THEN MinusDays(now, 1)
    ELSE IF s = T_today THEN DateOut(now.ord, now.tod)
    ELSE AbsParse(s, now)

\* lines 222-227
MonthBranch(s, now) ==
    IF Contains(T_month, s)
    THEN MinusDays(now, (IF HasDigits(s) THEN CountOf(s) ELSE 1) * MonthUnit)
    ELSE ParseLiteralOrAbsolute(s, now)

\* lines 215-220
WeekBranch(s, now) ==
    IF Contains(T_week, s)
    THEN MinusDays(now, (IF HasDigits(s) THEN CountOf(s) ELSE 1) * WeekUnit)
    ELSE MonthBranch(s, now)

\* lines 207-213: without digits int('') raises ValueError, which is passed
DayBranch(s, now) ==
    IF Contains(T_day, s) /\ HasDigits(s)
    THEN MinusDays(now, CountOf(s) * DayUnit)
    ELSE WeekBranch(s, now)

IsRelative(s) == Contains(T_ago, s) \/ Contains(T_last, s)

parse_relative_date(date_str, now) ==
    LET s == Normalize(date_str)
    IN  IF IsRelative(s) THEN DayBranch(s, now)
        ELSE ParseLiteralOrAbsolute(s, now)

(***************************************************************************)
(* The date expressions of the model: the expressions of the docstrings    *)
(* and of the examples, and every phrase of up to MaxWords words of Words  *)
(* that holds a letter; each in four spellings (as is, in upper case,      *)
(* wrapped in whitespace, both).                                           *)
(***************************************************************************)
NamedExprs == {
    <<"y", "e", "s", "t", "e", "r", "d", "a", "y">>,
    <<"t", "o", "d", "a", "y">>,
    <<"l", "a", "s", "t", " ", "w", "e", "e", "k">>,
    <<"l", "a", "s", "t", " ", "m", "o", "n", "t", "h">>,
    <<"2", " ", "w", "e", "e", "k", "s", " ", "a", "g", "o">>,
    <<"3", "0", " ", "d", "a", "y", "s", " ", "a", "g", "o">>,
    <<"2", " ", "m", "o", "n", "t", "h", "s", " ", "a", "g", "o">>,
    <<"2", "0", "2", "4", "-", "0", "1", "-", "0", "1">>,
    <<"2", "0", "2", "4", "/", "0", "3", "/", "1", "0">>,
    <<"2", "0", "2", "4", "-", "0", "2", "-", "3", "0">>,
    <<"n", "o", "t", " ", "a", " ", "d", "a", "t", "e">>,
    <<"l", "a", "s", "t", " ", "d", "a", "y">>,
    <<"l", "a", "s", "t", " ", "w", "e", "e", "k", "d", "a", "y">>,
    <<"2", " ", "w", "e", "e", "k", "s", " ", "l", "a", "s", "t", " ", "m", "o", "n", "t", "h">>,
    <<"2", " ", "d", "a", "y", "s", " ", "a", "n", "d", " ", "3", " ", "w", "e", "e", "k", "s", " ", "a", "g", "o">>,
    <<"9", "9", "9", "9", "9", "9", "9", " ", "d", "a", "y", "s", " ", "a", "g", "o">>,
    <<"9", "9", "9", "9", "9", "9", "9", " ", "w", "e", "e", "k", "s", " ", "a", "g", "o">>,
    <<"7", "3", "7", "0", "0", "0", " ", "d", "a", "y", "s", " ", "a", "g", "o">>,
    <<"0", "0", "9", "9", "-", "0", "1", "-", "0", "2">>,
    <<"0", "9", "9", "9", "-", "1", "2", "-", "3", "1">> }

Words == <<<<"2">>, <<"d", "a", "y", "s">>, <<"w", "e", "e", "k", "s">>, <<"a", "g", "o">>, <<"l", "a", "s", "t">>>>

RECURSIVE Phrases(_)
Phrases(n) ==
    IF n = 0 THEN {<<>>}
    ELSE LET shorter == Phrases(n - 1)
         IN  shorter \cup {p \o <<w>> : p \in {q \in shorter : Len(q) = n - 1},
                                        w \in 1..Len(Words)}

PhraseText(p) == Join(<<" ">>, [i \in 1..Len(p) |-> Words[p[i]]])

HasLetter(s) == \E i \in 1..Len(s) : \E k \in 1..26 : LowerCase[k] = s[i]

GeneratedExprs ==
    {t \in {PhraseText(p) : p \in Phrases(MaxWords) \ {<<>>}} : HasLetter(t)}

BaseExprs == NamedExprs \cup GeneratedExprs

Spellings == 0..3

Spell(b, k) ==
    LET cased == IF k \in {1, 3} THEN Upper(b) ELSE b
    IN  IF k \in {2, 3} THEN <<" ", "\t">> \o cased \o <<"\n", " ">> ELSE cased

(***************************************************************************)
(* convert_natural_language_to_gmail_query.  now1 and now2 are the values  *)
(* datetime.now() returns while after_date and before_date are parsed.     *)
(***************************************************************************)
\* Python's truth value of an optional text: None and '' are false
Truthy(t) == t # None /\ t # <<>>

\* parsed_date.strftime('%Y/%m/%d'); pad tells whether the C library pads
\* a year below 1000 to four digits (glibc does not)
Strftime(o, pad) ==
    LET ymd == Ord2Ymd(o)
    IN  (IF pad THEN ZeroPad(ymd.y, 4) ELSE NatToText(ymd.y))
            \o <<"/">> \o ZeroPad(ymd.m, 2) \o <<"/">> \o ZeroPad(ymd.d, 2)

K_from == <<"f", "r", "o", "m", ":">>
K_after == <<"a", "f", "t", "e", "r", ":">>
K_before == <<"b", "e", "f", "o", "r", "e", ":">>
K_attachment == <<"h", "a", "s", ":", "a", "t", "t", "a", "c", "h", "m", "e", "n", "t">>
K_label == <<"l", "a", "b", "e", "l", ":">>
K_wildcard == <<"*">>

\* `except ValueError` in place of `except Exception`
HandledValueErrorOnly(kind) == kind = "ValueError"

\* `except Exception` (lines 158, 165) handles every exception class
HandledByTranslator(kind) == TRUE

\* the outcome of parsing one date filter; NotCalled when it is not given
DateOutcome(e, now) ==
    IF Truthy(e) THEN parse_relative_date(e, now) ELSE NotCalled

\* lines 154-166: the clause a date filter adds to query_parts, if any
DateParts(prefix, out, pad) ==
    IF out.kind = "date" THEN <<prefix \o Strftime(out.ord, pad)>> ELSE <<>>

Escapes(out) == out.kind \notin {"none", "date"} /\ ~HandledByTranslator(out.kind)

\* the label appended before the attachment filter
QueryPartsLabelFirst(i, a, b, pad) ==
    (IF Truthy(i.sender) THEN <<K_from \o i.sender>> ELSE <<>>)
        \o DateParts(K_after, a, pad)
        \o DateParts(K_before, b, pad)
        \o (IF Truthy(i.label) THEN <<K_label \o i.label>> ELSE <<>>)
        \o (IF i.has_attachment = "True" THEN <<K_attachment>> ELSE <<>>)
        \o (IF Truthy(i.user_query) /\ Strip(i.user_query) # <<>>
            THEN <<Strip(i.user_query)>> ELSE <<>>)

\* lines 147-178: query_parts, in the order the parts are appended
QueryParts(i, a, b, pad) ==
    (IF Truthy(i.sender) THEN <<K_from \o i.sender>> ELSE <<>>)
        \o DateParts(K_after, a, pad)
        \o DateParts(K_before, b, pad)
        \o (IF i.has_attachment = "True" THEN <<K_attachment>> ELSE <<>>)
        \o (IF Truthy(i.label) THEN <<K_label \o i.label>> ELSE <<>>)
        \o (IF Truthy(i.user_query) /\ Strip(i.user_query) # <<>>
            THEN <<Strip(i.user_query)>> ELSE <<>>)

convert_natural_language_to_gmail_query(i, now1, now2, pad) ==
    LET a == DateOutcome(i.after_date, now1)
        b == DateOutcome(i.before_date, now2)
        gmail_query == Join(<<" ">>, QueryParts(i, a, b, pad))
    IN  IF Escapes(a) THEN [kind |-> a.kind, text |-> <<>>]
        ELSE IF Escapes(b) THEN [kind |-> b.kind, text |-> <<>>]
        ELSE [kind |-> "ok",
              text |-> IF gmail_query # <<>> THEN gmail_query ELSE K_wildcard]

(***************************************************************************)
(* The filter intents of the model.                                        *)
(***************************************************************************)
Senders == {None, <<>>, <<"a", "@", "b">>, <<"a", "@", "b", " ">>}

Labels == {None, <<"i", "n", "b", "o", "x">>}

Attachments == {"None", "True", "False"}

Keywords == {<<>>, <<" ", " ">>, <<" ", "i", "n", "v", " ", "x", "\n">>}

DateFilters == {
    None,
    <<"2", " ", "D", "a", "y", "s", " ", "a", "g", "o">>,
    <<"2", "0", "2", "4", "-", "0", "1", "-", "0", "1">>,
    <<"n", "o", "t", " ", "a", " ", "d", "a", "t", "e">>,
    <<"9", "9", "9", "9", "9", "9", "9", " ", "d", "a", "y", "s", " ", "a", "g", "o">>,
    <<"7", "3", "7", "0", "0", "0", " ", "d", "a", "y", "s", " ", "a", "g", "o">> }

(***************************************************************************)
(* extract_amounts_from_text (src/tools/parser_tools.py).  An amount is    *)
(* the float the code computes, held exactly as a number of hundredths.    *)
(* re.finditer is modelled for the shapes of CURRENCY_PATTERNS: a literal  *)
(* prefix (a currency sign, or one of a list of words followed by          *)
(* [\s:]+\$?), \s*, and the number; or the number, \s*, and a currency     *)
(* code.  The number is \d{1,3}(?:,\d{3})*(?:\.\d{2})? and, for yen,       *)
(* \d{1,3}(?:,\d{3})*(?:\.\d{0,2})?.                                       *)
(***************************************************************************)
Min(a, b) == IF a < b THEN a ELSE b

\* the number of digits of t from position i on
RECURSIVE DigitsAt(_, _)
DigitsAt(t, i) ==
    IF i > Len(t) \/ ~IsDigit(t[i]) THEN 0 ELSE 1 + DigitsAt(t, i + 1)

\* the number of groups ,\d{3} of t from position p on
RECURSIVE GroupsAt(_, _)
GroupsAt(t, p) ==
    IF p <= Len(t) /\ t[p] = "," /\ DigitsAt(t, p + 1) >= 3
    THEN 1 + GroupsAt(t, p + 4)
    ELSE 0

\* the position after \s* from position i
RECURSIVE SkipSpace(_, _)
SkipSpace(t, i) ==
    IF i <= Len(t) /\ t[i] \in Whitespace THEN SkipSpace(t, i + 1) ELSE i

\* whether the literal lit (in lower case) is at position i, re.IGNORECASE
LiteralAt(lit, t, i) ==
    /\ i + Len(lit) - 1 <= Len(t)
    /\ Lower(SubSeq(t, i, i + Len(lit) - 1)) = lit

\* the fraction of every notation read as (?:\.\d{2})?
FractionEndsTwoOnly(t, p, yen) ==
    IF p <= Len(t) /\ t[p] = "." /\ DigitsAt(t, p + 1) >= 2
    THEN <<p + 3, p>>
    ELSE <<p>>

\* where the optional fraction may end (the position after it) when the
\* integer part ends before p, in the order the regex engine tries them:
\* (?:\.\d{2})? or, for yen, (?:\.\d{0,2})?, greedy, then no fraction
FractionEnds(t, p, yen) ==
    IF p <= Len(t) /\ t[p] = "."
    THEN LET n == Min(DigitsAt(t, p + 1), 2)
         IN  (IF yen THEN [k \in 1..(n + 1) |-> p + 1 + n - (k - 1)]
              ELSE IF n = 2 THEN <<p + 3>> ELSE <<>>) \o <<p>>
    ELSE <<p>>

\* ... with g groups or fewer after the d leading digits at i
RECURSIVE GroupEnds(_, _, _, _, _)
GroupEnds(t, i, d, g, yen) ==
    FractionEnds(t, i + d + 4 * g, yen)
        \o (IF g = 0 THEN <<>> ELSE GroupEnds(t, i, d, g - 1, yen))

\* ... with d leading digits or fewer
RECURSIVE LeadEnds(_, _, _, _)
LeadEnds(t, i, d, yen) ==
    IF d = 0 THEN <<>>
    ELSE GroupEnds(t, i, d, GroupsAt(t, i + d), yen) \o LeadEnds(t, i, d - 1, yen)

\* every way the number pattern matches at i, as the position after the
\* number, in the order of the engine's backtracking
NumberEnds(t, i, yen) == LeadEnds(t, i, Min(DigitsAt(t, i), 3), yen)

NoMatch == [found |-> FALSE, from |-> 0, to |-> 0, next |-> 0]

\* a match: the group is t[from..to-1], and the match ends before next
Match(from, to, next) == [found |-> TRUE, from |-> from, to |-> to, next |-> next]

\* the number after a prefix that ends before j: \s*(number), greedy
NumberAfter(t, j, yen) ==
    LET from == SkipSpace(t, j)
        ends == NumberEnds(t, from, yen)
    IN  IF ends = <<>> THEN NoMatch ELSE Match(from, ends[1], ends[1])

\* sign\s*(number) at position i
SignMatchAt(pat, t, i) ==
    IF LiteralAt(pat.lits[1], t, i)
    THEN NumberAfter(t, i + Len(pat.lits[1]), pat.yen)
    ELSE NoMatch

\* (?:word|...)[\s:]*\$?\s*(number) at position i
WordMatchAtOptional(pat, t, i) ==
    LET ks == {k \in 1..Len(pat.lits) : LiteralAt(pat.lits[k], t, i)}
    IN  IF ks = {} THEN NoMatch
        ELSE LET k == CHOOSE x \in ks : \A y \in ks : x <= y
                 a == i + Len(pat.lits[k])
                 seps == {j \in a..Len(t) : t[j] \notin Whitespace \cup {":"}}
                 b == IF seps = {} THEN Len(t) + 1
                      ELSE CHOOSE x \in seps : \A y \in seps : x <= y
                 c == IF b <= Len(t) /\ t[b] = "$" THEN b + 1 ELSE b
             IN  NumberAfter(t, c, FALSE)

\* (?:word|...)[\s:]+\$?\s*(number) at position i
WordMatchAt(pat, t, i) ==
    LET ks == {k \in 1..Len(pat.lits) : LiteralAt(pat.lits[k], t, i)}
    IN  IF ks = {} THEN NoMatch
        ELSE LET k == CHOOSE x \in ks : \A y \in ks : x <= y
                 a == i + Len(pat.lits[k])
                 seps == {j \in a..Len(t) : t[j] \notin Whitespace \cup {":"}}
                 b == IF seps = {} THEN Len(t) + 1
                      ELSE CHOOSE x \in seps : \A y \in seps : x <= y
                 c == IF b <= Len(t) /\ t[b] = "$" THEN b + 1 ELSE b
             IN  IF b = a THEN NoMatch ELSE NumberAfter(t, c, FALSE)

\* (number)\s*code at position i: the first way to match the number after
\* which the code follows
CodeMatchAt(pat, t, i) ==
    LET ends == NumberEnds(t, i, pat.yen)
        ok == {k \in 1..Len(ends) : LiteralAt(pat.lits[1], t, SkipSpace(t, ends[k]))}
    IN  IF ok = {} THEN NoMatch
        ELSE LET k == CHOOSE x \in ok : \A y \in ok : x <= y
             IN  Match(i, ends[k], SkipSpace(t, ends[k]) + Len(pat.lits[1]))

MatchAt(pat, t, i) ==
    IF pat.kind = "sign" THEN SignMatchAt(pat, t, i)
    ELSE IF pat.kind = "word" THEN WordMatchAt(pat, t, i)
    ELSE CodeMatchAt(pat, t, i)

\* float(amount_str.replace(',', '')), in hundredths
RECURSIVE AmountOf(_)
AmountOf(g) ==
    LET dot == {k \in 1..Len(g) : g[k] = "."}
    IN  IF dot = {}
        THEN 100 * DigitsValue(FilterDigits(g))
        ELSE LET k == CHOOSE x \in dot : TRUE
                 frac == SubSeq(g, k + 1, Len(g))
             IN  100 * DigitsValue(FilterDigits(SubSeq(g, 1, k - 1)))
                     + (IF Len(frac) = 2 THEN DigitsValue(frac)
                        ELSE IF Len(frac) = 1 THEN 10 * DigitsValue(frac)
                        ELSE 0)

\* re.finditer(pattern, text, re.IGNORECASE): match.group(1) of the matches,
\* left to right, each search starting where the match before ended
RECURSIVE FindGroups(_, _, _)
FindGroups(pat, t, i) ==
    IF i > Len(t) THEN <<>>
    ELSE LET m == MatchAt(pat, t, i)
         IN  IF m.found
             THEN <<SubSeq(t, m.from, m.to - 1)>> \o FindGroups(pat, t, m.next)
             ELSE FindGroups(pat, t, i + 1)

\* lines 72-77: the amounts of the matches of one pattern
AmountsOf(gs) == [k \in 1..Len(gs) |-> AmountOf(gs[k])]

Sign(c, yen) == [kind |-> "sign", lits |-> <<<<c>>>>, yen |-> yen]

Code(c, yen) == [kind |-> "code", lits |-> <<c>>, yen |-> yen]

ContextWords == <<<<"a", "m", "o", "u", "n", "t">>,
                  <<"t", "o", "t", "a", "l">>,
                  <<"s", "u", "m">>,
                  <<"p", "a", "y", "m", "e", "n", "t">>,
                  <<"c", "h", "a", "r", "g", "e">>,
                  <<"p", "r", "i", "c", "e">>,
                  <<"c", "o", "s", "t">>,
                  <<"f", "e", "e">>>>

VerbWords == <<<<"p", "a", "i", "d">>,
               <<"r", "e", "c", "e", "i", "v", "e", "d">>,
               <<"s", "e", "n", "t">>,
               <<"t", "r", "a", "n", "s", "f", "e", "r", "r", "e", "d">>,
               <<"c", "h", "a", "r", "g", "e", "d">>,
               <<"b", "i", "l", "l", "e", "d">>>>

CURRENCY_PATTERNS ==
    << Sign("$", FALSE), Sign("€", FALSE), Sign("£", FALSE), Sign("¥", TRUE),
       Code(<<"u", "s", "d">>, FALSE), Code(<<"e", "u", "r">>, FALSE),
       Code(<<"g", "b", "p">>, FALSE), Code(<<"j", "p", "y">>, TRUE),
       [kind |-> "word", lits |-> ContextWords, yen |-> FALSE],
       [kind |-> "word", lits |-> VerbWords, yen |-> FALSE] >>

\* no match of any pattern
NoGroups == [k \in 1..Len(CURRENCY_PATTERNS) |-> <<>>]

\* lines 60-72: the matches of all patterns; none for a text that is empty
\* or absent
MatchGroups(t) ==
    IF ~Truthy(t) THEN NoGroups
    ELSE [k \in 1..Len(CURRENCY_PATTERNS) |-> FindGroups(CURRENCY_PATTERNS[k], t, 1)]

\* lines 66-79: the amounts of all patterns, pattern after pattern
RECURSIVE AllMatches(_, _)
AllMatches(gss, k) ==
    IF k > Len(gss) THEN <<>>
    ELSE AmountsOf(gss[k]) \o AllMatches(gss, k + 1)

\* lines 81-87 without the `seen` test
KeepAll(as, seen) == as

\* lines 81-87: duplicates removed, the first occurrence kept
RECURSIVE Unique(_, _)
Unique(as, seen) ==
    IF as = <<>> THEN <<>>
    ELSE IF Head(as) \in seen THEN Unique(Tail(as), seen)
    ELSE <<Head(as)>> \o Unique(Tail(as), seen \cup {Head(as)})

\* lines 81-89
unique_amounts(gss) == Unique(AllMatches(gss, 1), {})

extract_amounts_from_text(t) == unique_amounts(MatchGroups(t))

(***************************************************************************)
(* The texts of the model: the texts of the docstrings and examples, and   *)
(* every concatenation of up to MaxTokens tokens of Tokens.                *)
(***************************************************************************)
NamedTexts == {
    None,
    <<"P", "a", "i", "d", " ", "$", "1", ",", "2", "3", "4", ".", "5", "6", " ", "f", "o", "r", " ", "i", "n", "v", "o", "i", "c", "e", ",", " ", "t", "o", "t", "a", "l", " ", "$", "1", ",", "2", "3", "4", ".", "5", "6">>,
    <<"C", "o", "s", "t", ":", " ", "5", "0", ".", "0", "0", " ", "E", "U", "R", " ", "a", "n", "d", " ", "f", "e", "e", " ", "2", "5", " ", "G", "B", "P">>,
    <<"$", "1", "0", "0", "0">>,
    <<"¥", "1", "0", "0", "0">>,
    <<"1", "0", "0", "0", " ", "J", "P", "Y">>,
    <<"1", "0", "0", "0", " ", "U", "S", "D">>,
    <<"€", "1", "0", "0", "0">>,
    <<"1", "0", "0", "0">>,
    <<"$", "1", ",", "0", "0", "0", ".", "0", "0">>,
    <<"1", ",", "0", "0", "0", " ", "j", "p", "y">>,
    <<"t", "o", "t", "a", "l", " ", "1", "0", "0", "0">>,
    <<"$", "1", "0", "0", " ", "a", "n", "d", " ", "1", "0", "0", ".", "0", "0", " ", "U", "S", "D">>,
    <<"$", "5", " ", "$", "7", " ", "$", "5">>,
    <<"$", "1", ",", "2", "3">>,
    <<"$", "1", "2", ",", "3">>,
    <<"1", ",", "2", "3", " ", "U", "S", "D">>,
    <<"f", "e", "e", "2", "5">>,
    <<"t", "o", "t", "a", "l", ":", "5", "0", ".", "0", "0">>,
    <<"F", "e", "e", ":", " ", "$", " ", "2", "5">>,
    <<"B", "I", "L", "L", "E", "D", " ", "7">>,
    <<"s", "u", "m", "1">>,
    <<"¥", "1", "0", "0", ".", "5">>,
    <<"¥", "1", "0", "0", ".">>,
    <<"1", "0", "0", ".", "5", " ", "J", "P", "Y">>,
    <<"$", "1", "0", "0", ".", "5">>,
    <<"1", "0", "0", ".", "5", " ", "U", "S", "D">>,
    <<"¥", "1", ",", "0", "0", "0", ".", "5", "0">> }

Tokens == <<<<"$">>,
            <<"¥">>,
            <<" ">>,
            <<"1", "0", "0", "0">>,
            <<"1">>,
            <<",", "0", "0", "0">>,
            <<".", "0", "5">>,
            <<"U", "S", "D">>,
            <<"t", "o", "t", "a", "l">>>>

RECURSIVE TokenLists(_)
TokenLists(n) ==
    IF n = 0 THEN {<<>>}
    ELSE LET shorter == TokenLists(n - 1)
         IN  shorter \cup {p \o <<w>> : p \in {q \in shorter : Len(q) = n - 1},
                                        w \in 1..Len(Tokens)}

RECURSIVE Concat(_)
Concat(p) == IF p = <<>> THEN <<>> ELSE Tokens[Head(p)] \o Concat(Tail(p))

Texts == NamedTexts \cup {Concat(p) : p \in TokenLists(MaxTokens)}

(***************************************************************************)
(* Email records and their amounts (src/tools/parser_tools.py, lines       *)
(* 92-289).  A dict is the function from its keys to their values; an      *)
(* element of a batch is a dict or a value that is no mapping.  A call     *)
(* returns a value or raises.                                              *)
(***************************************************************************)
Dict(f) == [kind |-> "dict", fields |-> f]

NotAMapping(v) == [kind |-> "str", fields |-> v]

IsDict(e) == e.kind = "dict"

\* dict.get(key, default)
Get(e, key, default) ==
    IF key \in DOMAIN e.fields THEN e.fields[key] ELSE default

\* d[key] = value
Put(f, key, value) ==
    [k \in DOMAIN f \cup {key} |-> IF k = key THEN value ELSE f[k]]

Returns(v) == [kind |-> "ok", value |-> v]

Raises(k) == [kind |-> k, value |-> <<>>]

\* an optional bound: None, or a number of hundredths
NoBound == [set |-> FALSE, at |-> 0]

Bound(n) == [set |-> TRUE, at |-> n]

\* lines 108-116 with `if min_amount:` and `if max_amount:`
filter_amounts_by_truthy_range(as, min_amount, max_amount) ==
    LET AtLeast(a) == a >= min_amount.at
        AtMost(a) == a <= max_amount.at
        filtered == IF min_amount.set /\ min_amount.at # 0
                    THEN SelectSeq(as, AtLeast) ELSE as
    IN  IF max_amount.set /\ max_amount.at # 0
        THEN SelectSeq(filtered, AtMost) ELSE filtered

\* lines 108-116
filter_amounts_by_range(as, min_amount, max_amount) ==
    LET AtLeast(a) == a >= min_amount.at
        AtMost(a) == a <= max_amount.at
        filtered == IF min_amount.set THEN SelectSeq(as, AtLeast) ELSE as
    IN  IF max_amount.set THEN SelectSeq(filtered, AtMost) ELSE filtered

\* set(list)
SetOf(as) == {as[k] : k \in 1..Len(as)}

\* list(a set of numbers) followed by sort(reverse=True)
RECURSIVE SortDescending(_)
SortDescending(S) ==
    IF S = {} THEN <<>>
    ELSE LET m == CHOOSE x \in S : \A y \in S : y <= x
         IN  <<m>> \o SortDescending(S \ {m})

\* lines 145-146 without the sort: duplicates removed, first-seen order
CombinedUnsorted(subject_amounts, body_amounts, snippet_amounts) ==
    Unique(subject_amounts \o body_amounts \o snippet_amounts, {})

\* lines 145-146
Combined(subject_amounts, body_amounts, snippet_amounts) ==
    SortDescending(SetOf(subject_amounts \o body_amounts \o snippet_amounts))

\* the texts the fields of the model's email records hold
FieldTexts == {
    None,
    <<>>,
    <<"$", "1", "0", "0">>,
    <<"$", "5", " ", "$", "7", " ", "$", "5">>,
    <<"$", "2", "0", "0">>,
    <<"P", "a", "i", "d", " ", "$", "1", "0", "0", " ", "a", "n", "d", " ", "1", "0", "0", ".", "0", "0", " ", "U", "S", "D">>,
    <<"$", "2", "0", "0", " ", "t", "o", "t", "a", "l", ":", " ", "3", "0", "0">> }

\* lines 140-142: extract_amounts_from_text of each field text of the
\* model, computed once
AmountsIn == [t \in FieldTexts |-> extract_amounts_from_text(t)]

\* lines 135-137: the fields the amounts are read from
AmountFields == <<"subject", "body", "snippet">>

\* lines 135-146 reading the amounts a record already carries as well
AllAmountsWithDetected(email) ==
    LET found == [k \in 1..Len(AmountFields) |->
                     AmountsIn[Get(email, AmountFields[k], <<>>)]]
    IN  Combined(found[1], found[2],
                 found[3] \o Get(email, "detected_amounts", <<>>))

\* lines 135-146: all_amounts of a dict
AllAmountsOf(email) ==
    LET found == [k \in 1..Len(AmountFields) |->
                     AmountsIn[Get(email, AmountFields[k], <<>>)]]
    IN  Combined(found[1], found[2], found[3])

\* lines 151-160: the dict returned
ExtractionResult(email, all_amounts, filtered_amounts) ==
    [email_id |-> Get(email, "id", <<>>),
     subject |-> Get(email, "subject", <<>>),
     all_amounts |-> all_amounts,
     filtered_amounts |-> filtered_amounts,
     has_amounts |-> Len(all_amounts) > 0,
     matches_filter |-> Len(filtered_amounts) > 0,
     total_found |-> Len(all_amounts),
     total_matching |-> Len(filtered_amounts)]

\* lines 148-160
FilteredResult(email, all_amounts, min_amount, max_amount) ==
    ExtractionResult(email, all_amounts,
                     filter_amounts_by_range(all_amounts, min_amount, max_amount))

\* lines 135-160; email.get of a value that is no mapping raises
extract_amounts_from_email(email, min_amount, max_amount) ==
    IF ~IsDict(email) THEN Raises("AttributeError")
    ELSE Returns(FilteredResult(email, AllAmountsOf(email), min_amount, max_amount))

\* lines 252-258: the loop has no handler, an exception ends the call
RECURSIVE ExtractLoop(_, _, _, _)
ExtractLoop(es, min_amount, max_amount, results) ==
    LET Step(r) ==
            IF r.kind # "ok" THEN r
            ELSE ExtractLoop(Tail(es), min_amount, max_amount,
                             Append(results, r.value))
    IN  IF es = <<>> THEN Returns(results)
        ELSE Step(extract_amounts_from_email(Head(es), min_amount, max_amount))

extract_amounts_from_multiple_emails(es, min_amount, max_amount) ==
    ExtractLoop(es, min_amount, max_amount, <<>>)

\* line 282 testing has_amounts
SelectedWithAnyAmount(r) == r.has_amounts

\* line 282
Selected(r) == r.matches_filter

\* lines 284-286 without the copy: the caller's dict is written to
email_written_in_place(email, r) ==
    LET written == Dict(Put(Put(email.fields, "detected_amounts", r.filtered_amounts),
                            "all_amounts", r.all_amounts))
    IN  [out |-> written, kept |-> written]

\* lines 284-286: the dict appended to the output, and the caller's dict
email_with_amounts(email, r) ==
    [out |-> Dict(Put(Put(email.fields, "detected_amounts", r.filtered_amounts),
                      "all_amounts", r.all_amounts)),
     kept |-> email]

\* lines 277-289; `seen` are the caller's dicts already visited, as the
\* loop leaves them.  The loop has no handler, an exception ends the call.
RECURSIVE FilterLoop(_, _, _, _, _)
FilterLoop(es, min_amount, max_amount, matching_emails, seen) ==
    LET Keep(w) ==
            FilterLoop(Tail(es), min_amount, max_amount,
                       Append(matching_emails, w.out), Append(seen, w.kept))
        Step(r) ==
            IF r.kind # "ok"
            THEN [kind |-> r.kind, value |-> <<>>, emails |-> seen \o es]
            ELSE IF Selected(r.value)
            THEN Keep(email_with_amounts(Head(es), r.value))
            ELSE FilterLoop(Tail(es), min_amount, max_amount,
                            matching_emails, Append(seen, Head(es)))
    IN  IF es = <<>>
        THEN [kind |-> "ok", value |-> matching_emails, emails |-> seen]
        ELSE Step(extract_amounts_from_email(Head(es), min_amount, max_amount))

filter_emails_by_amount(es, min_amount, max_amount) ==
    FilterLoop(es, min_amount, max_amount, <<>>, <<>>)

(***************************************************************************)
(* The email records and ranges of the model.  Missing marks a key the     *)
(* dict does not have.                                                     *)
(***************************************************************************)
Missing == <<"Missing">>

EmailRecord(s, b, n) ==
    Dict([k \in {"id", "from"}
                 \cup (IF s = Missing THEN {} ELSE {"subject"})
                 \cup (IF b = Missing THEN {} ELSE {"body"})
                 \cup (IF n = Missing THEN {} ELSE {"snippet"}) |->
             CASE k = "id" -> <<"m", "1">>
               [] k = "from" -> <<"a", "@", "b">>
               [] k = "subject" -> s
               [] k = "body" -> b
               [] k = "snippet" -> n])

Subjects == {Missing, None, <<"$", "1", "0", "0">>, <<"$", "5", " ", "$", "7", " ", "$", "5">>}

Bodies == {Missing, <<"$", "2", "0", "0">>, <<"P", "a", "i", "d", " ", "$", "1", "0", "0", " ", "a", "n", "d", " ", "1", "0", "0", ".", "0", "0", " ", "U", "S", "D">>}

Snippets == {Missing, <<>>, <<"$", "2", "0", "0", " ", "t", "o", "t", "a", "l", ":", " ", "3", "0", "0">>}

\* a record that already carries amount fields
Enriched ==
    Dict([id |-> <<"m", "2">>, subject |-> <<"$", "2", "0", "0", " ", "t", "o", "t", "a", "l", ":", " ", "3", "0", "0">>, detected_amounts |-> <<999>>])

NonMappings == {NotAMapping(<<"o", "o", "p", "s">>), NotAMapping(None)}

Emails ==
    {EmailRecord(s, b, n) : s \in Subjects, b \in Bodies, n \in Snippets}
        \cup {Enriched} \cup NonMappings

BatchElements ==
    {EmailRecord(s, b, Missing) : s \in {Missing, <<"$", "1", "0", "0">>}, b \in {Missing, <<"$", "2", "0", "0">>}}
        \cup {Enriched, NotAMapping(<<"o", "o", "p", "s">>)}

RECURSIVE Batches(_)
Batches(n) ==
    IF n = 0 THEN {<<>>}
    ELSE LET shorter == Batches(n - 1)
         IN  shorter \cup {Append(p, e) : p \in {q \in shorter : Len(q) = n - 1},
                                          e \in BatchElements}

Lows == {NoBound, Bound(0), Bound(15000)}

Highs == {NoBound, Bound(0), Bound(20000)}

(***************************************************************************)
(* The CSV export (src/tools/export_tools.py) and the records it is handed *)
(* (src/tools/gmail_tools.py).  The timestamps of the model are unsigned   *)
(* decimal numerals, and the local time zone is UTC.                       *)
(***************************************************************************)
EpochOrdinal == Ymd2Ord(1970, 1, 1)

MsPerSecond == 1000

MsPerDay == 24 * 60 * 60 * MsPerSecond

\* the first number of milliseconds localtime() cannot convert (glibc,
\* 64-bit time_t): the year no longer fits tm_year
PlatformLimit == <<"6", "7", "7", "6", "7", "9", "7", "6", "2", "3", "3", "5", "3", "2", "8", "0", "0", "0", "0", "0">>

\* a >= b for decimal numerals without leading zeros
RECURSIVE NumeralAtLeast(_, _)
NumeralAtLeast(a, b) ==
    IF Len(a) # Len(b) THEN Len(a) > Len(b)
    ELSE IF a = <<>> THEN TRUE
    ELSE IF Head(a) # Head(b) THEN DigitVal(Head(a)) > DigitVal(Head(b))
    ELSE NumeralAtLeast(Tail(a), Tail(b))

\* int(ds) divided by MsPerDay: the quotient q (kept at MaxOrdinal once
\* it is beyond) and the remainder r
RECURSIVE DivDay(_, _, _)
DivDay(ds, q, r) ==
    IF ds = <<>> THEN [q |-> q, r |-> r]
    ELSE LET n == 10 * r + DigitVal(Head(ds))
         IN  DivDay(Tail(ds), Min(10 * q + n \div MsPerDay, MaxOrdinal), n % MsPerDay)

\* line 82: strftime('%Y-%m-%d %H:%M:%S') of the day `o` and the second
\* `sec` of the day
StrftimeSeconds(o, sec) ==
    LET ymd == Ord2Ymd(o)
    IN  ZeroPad(ymd.y, 4) \o <<"-">> \o ZeroPad(ymd.m, 2) \o <<"-">>
            \o ZeroPad(ymd.d, 2) \o <<" ">> \o ZeroPad(sec \div 3600, 2)
            \o <<":">> \o ZeroPad((sec % 3600) \div 60, 2)
            \o <<":">> \o ZeroPad(sec % 60, 2)

\* lines 81-82: int(internal_date) / 1000, datetime.fromtimestamp, strftime
FormatTimestamp(internal_date) ==
    LET ds == Strip(internal_date)
    IN  IF ds = <<>> \/ \E k \in 1..Len(ds) : ~IsDigit(ds[k])
        THEN Raises("ValueError")
        ELSE IF NumeralAtLeast(ds, PlatformLimit) THEN Raises("OSError")
        ELSE LET d == DivDay(ds, 0, 0)
             IN  IF EpochOrdinal + d.q > MaxOrdinal THEN Raises("ValueError")
                 ELSE Returns(StrftimeSeconds(EpochOrdinal + d.q,
                                              d.r \div MsPerSecond))

\* lines 75-84: the Date column, or the exception that escapes
DateColumn(email) ==
    LET date == Get(email, "date", <<>>)
        internal_date == Get(email, "internal_date", <<>>)
    IN  IF Truthy(date) \/ ~Truthy(internal_date) THEN Returns(date)
        ELSE LET f == FormatTimestamp(internal_date)
             IN  IF f.kind = "ValueError" THEN Returns(<<>>) ELSE f

\* f'${amt:.2f}' of an amount in hundredths
Money(amt) == <<"$">> \o NatToText(amt \div 100) \o <<".">> \o ZeroPad(amt % 100, 2)

CommaSpace == <<",", " ">>

\* lines 63-68
AmountsColumn(email) ==
    LET detected == Get(email, "detected_amounts", <<>>)
        shown == IF detected = <<>> THEN Get(email, "all_amounts", <<>>) ELSE detected
    IN  Join(CommaSpace, [k \in 1..Len(shown) |-> Money(shown[k])])

\* lines 71-72
LabelsColumn(email) == Join(CommaSpace, Get(email, "labels", <<>>))

Yes == <<"Y", "e", "s">>

No == <<"N", "o">>

\* line 94 with the two literals exchanged
AttachmentsColumnInverted(email) ==
    IF Get(email, "has_attachments", FALSE) THEN No ELSE Yes

\* line 94
AttachmentsColumn(email) ==
    IF Get(email, "has_attachments", FALSE) THEN Yes ELSE No

\* lines 153-156
column_order == <<"ID", "Date", "From", "To", "Subject", "Snippet", "Labels",
                  "Has_Attachments", "Detected_Amounts">>

\* lines 62-96; email.get of a value that is no mapping raises
format_email_for_csv(email) ==
    IF ~IsDict(email) THEN Raises("AttributeError")
    ELSE LET date == DateColumn(email)
         IN  IF date.kind # "ok" THEN date
             ELSE Returns([ID |-> Get(email, "id", <<>>),
                           Date |-> date.value,
                           From |-> Get(email, "from", <<>>),
                           To |-> Get(email, "to", <<>>),
                           Subject |-> Get(email, "subject", <<>>),
                           Snippet |-> Get(email, "snippet", <<>>),
                           Labels |-> LabelsColumn(email),
                           Has_Attachments |-> AttachmentsColumn(email),
                           Detected_Amounts |-> AmountsColumn(email)])

NoFile == [header |-> <<>>, rows |-> <<>>]

ExportFailed ==
    [success |-> FALSE, count |-> 0, filepath |-> <<>>, filename |-> <<>>,
     file |-> NoFile]

\* the second of the day at which a time-of-day slot of the clock begins
SecondOfDay(t) == t.tod * ((24 * 60 * 60) \div SlotsPerDay)

\* lines 136-137: the name generated from datetime.now()
AutoName(now) ==
    LET ymd == Ord2Ymd(now.ord)
        sec == SecondOfDay(now)
    IN  <<"f", "i", "l", "t", "e", "r", "e", "d", "_", "e", "m", "a", "i", "l", "s", "_">>
            \o ZeroPad(ymd.y, 4) \o ZeroPad(ymd.m, 2) \o ZeroPad(ymd.d, 2)
            \o <<"_">> \o ZeroPad(sec \div 3600, 2)
            \o ZeroPad((sec % 3600) \div 60, 2) \o ZeroPad(sec % 60, 2)
            \o <<".", "c", "s", "v">>

\* lines 30, 131-132
CSV_OUTPUT_DIR == <<"c", "s", "v", "_", "f", "i", "l", "e", "s">>

\* line 144: os.path.join(output_dir, filename)
PathJoin(dir, name) == dir \o <<"/">> \o name

\* lines 126-185 called without filename and output_dir at the time `now`:
\* the returned dict and, as `file`, what to_csv wrote; with writable false
\* the directory or the file cannot be written.  Every exception is handled
\* at line 177.
export_emails_to_csv(es, now, writable) ==
    LET formatted_emails == [k \in 1..Len(es) |-> format_email_for_csv(es[k])]
    IN  IF \E k \in 1..Len(es) : formatted_emails[k].kind # "ok" THEN ExportFailed
        ELSE IF ~writable THEN ExportFailed
        ELSE [success |-> TRUE,
              count |-> Len(es),
              filepath |-> PathJoin(CSV_OUTPUT_DIR, AutoName(now)),
              filename |-> AutoName(now),
              file |-> [header |-> column_order,
                        rows |-> [k \in 1..Len(es) |->
                                     [c \in 1..Len(column_order) |->
                                         formatted_emails[k].value[column_order[c]]]]]]

\* a message as messages.get returns it; `date` is its Date header as
\* fetch_email_details formats it, empty when the header is absent
Message(id, date, internalDate) ==
    [id |-> id, threadId |-> id, snippet |-> <<"$", "2", "0", "0", " ", "d", "u", "e">>, date |-> date,
     internalDate |-> internalDate]

\* gmail_tools.py lines 293-298: the summary search_gmail returns
SearchSummary(m) ==
    Dict([id |-> m.id, threadId |-> m.threadId, snippet |-> m.snippet,
          internalDate |-> m.internalDate])

\* gmail_tools.py lines 373-385: the dict fetch_email_details returns
FetchedDetails(m, labels, has_attachments) ==
    Dict([id |-> m.id, threadId |-> m.threadId, from |-> <<"a", "@", "b">>, to |-> <<"c", "@", "d">>,
          subject |-> <<"I", "n", "v", "o", "i", "c", "e">>, date |-> m.date, snippet |-> m.snippet,
          body |-> <<"$", "1", "0", "0">>, labels |-> labels,
          has_attachments |-> has_attachments,
          internal_date |-> m.internalDate])

Dated == Message(<<"m", "1">>, <<"2", "0", "2", "4", "-", "0", "3", "-", "1", "5", " ", "1", "0", ":", "0", "0", ":", "0", "0">>, <<"1", "7", "1", "0", "4", "9", "6", "8", "0", "0", "0", "0", "0">>)

Undated == Message(<<"m", "2">>, <<>>, <<"1", "7", "1", "0", "4", "9", "6", "8", "0", "0", "9", "9", "9">>)

\* the records of the model that may be handed to the export
ExportElements == {
    FetchedDetails(Dated, <<<<"I", "N", "B", "O", "X">>, <<"U", "N", "R", "E", "A", "D">>>>, TRUE),
    FetchedDetails(Undated, <<>>, FALSE),
    SearchSummary(Dated),
    Dict(Put(Put(FetchedDetails(Undated, <<<<"I", "N", "B", "O", "X">>>>, TRUE).fields,
                 "detected_amounts", <<20000>>), "all_amounts", <<20000, 10000>>)),
    Dict([id |-> <<"m", "3">>, detected_amounts |-> <<>>, all_amounts |-> <<500, 123456>>]),
    Dict([id |-> <<"m", "4">>]),
    Dict([id |-> <<"m", "5">>, date |-> None, internal_date |-> <<"s", "o", "o", "n">>]),
    Dict([id |-> <<"m", "6">>, internal_date |-> <<"9", "9", "9", "9", "9", "9", "9", "9", "9", "9", "9", "9", "9", "9", "9">>]),
    Dict([id |-> <<"m", "7">>, internal_date |-> <<"9", "9", "9", "9", "9", "9", "9", "9", "9", "9", "9", "9", "9", "9", "9", "9", "9", "9", "9", "9">>]),
    NotAMapping(<<"o", "o", "p", "s">>) }

RECURSIVE ExportBatches(_)
ExportBatches(n) ==
    IF n = 0 THEN {<<>>}
    ELSE LET shorter == ExportBatches(n - 1)
         IN  shorter \cup {Append(p, e) : p \in {q \in shorter : Len(q) = n - 1},
                                          e \in ExportElements}

(***************************************************************************)
(* Message payloads (src/tools/gmail_tools.py, lines 390-442).  A part is  *)
(* a record of its mimeType, its filename, the data of its body and its    *)
(* parts; a key the part does not have is Absent.  The data of a body is   *)
(* the base64url encoding of a text, or a string that is no encoding.      *)
(***************************************************************************)
Absent == [set |-> FALSE, at |-> <<>>]

Present(v) == [set |-> TRUE, at |-> v]

\* base64.urlsafe_b64encode of the text t
B64(t) == [valid |-> TRUE, text |-> t]

\* a string base64 cannot decode
Malformed == [valid |-> FALSE, text |-> <<>>]

TextPlain == "text/plain"

TextHtml == "text/html"

Part(mimeType, filename, data, parts) ==
    [mimeType |-> mimeType, filename |-> filename, data |-> data, parts |-> parts]

\* lines 407, 412, 420: base64.urlsafe_b64decode(data).decode('utf-8',
\* errors='ignore')
Decoded(data) ==
    IF data.valid THEN Returns(data.text) ELSE Raises("binascii.Error")

\* lines 400-422.  BodyLoop is the loop of lines 403-416 over the parts
\* left, `body` the text found so far; an exception of the decoding ends
\* the call.
RECURSIVE extract_body(_), BodyLoop(_, _)
BodyLoop(parts, body) ==
    LET part == Head(parts)
        Found(d) ==
            IF d.kind # "ok" THEN d ELSE BodyLoop(Tail(parts), d.value)
        Nested(r) ==
            IF r.kind # "ok" \/ r.value # <<>> THEN r
            ELSE BodyLoop(Tail(parts), r.value)
    IN  IF parts = <<>> THEN Returns(body)
        ELSE IF part.mimeType = TextPlain
        THEN IF part.data.set THEN Decoded(part.data.at)
             ELSE BodyLoop(Tail(parts), body)
        ELSE IF part.mimeType = TextHtml /\ body = <<>>
        THEN IF part.data.set THEN Found(Decoded(part.data.at))
             ELSE BodyLoop(Tail(parts), body)
        ELSE IF part.parts.set THEN Nested(extract_body(part))
        ELSE BodyLoop(Tail(parts), body)

extract_body(payload) ==
    IF payload.parts.set THEN BodyLoop(payload.parts.at, <<>>)
    ELSE IF payload.data.set THEN Decoded(payload.data.at)
    ELSE Returns(<<>>)

\* lines 435-442 without the recursion of lines 439-441
has_attachment_top_level(payload) ==
    /\ payload.parts.set
    /\ \E k \in 1..Len(payload.parts.at) : Truthy(payload.parts.at[k].filename)

\* lines 435-442
RECURSIVE has_attachment_check(_)
has_attachment_check(payload) ==
    /\ payload.parts.set
    /\ \E k \in 1..Len(payload.parts.at) :
           \/ Truthy(payload.parts.at[k].filename)
           \/ /\ payload.parts.at[k].parts.set
              /\ has_attachment_check(payload.parts.at[k])

(***************************************************************************)
(* The payloads of the model: up to MaxParts parts, each a leaf or one of  *)
(* the nested multipart parts.                                             *)
(***************************************************************************)
Plain(t) == Part(TextPlain, <<>>, Present(B64(t)), Absent)

Html(t) == Part(TextHtml, <<>>, Present(B64(t)), Absent)

Multipart(ps) == Part("multipart/alternative", <<>>, Absent, Present(ps))

Attachment(filename) == Part("application/pdf", filename, Absent, Absent)

Leaves == {
    Plain(<<"P", "1">>),
    Plain(<<>>),
    Part(TextPlain, <<>>, Absent, Absent),
    Html(<<"H", "1">>),
    Part(TextHtml, None, Absent, Absent),
    Part(TextHtml, <<>>, Present(Malformed), Absent),
    Attachment(<<"a", ".", "p", "d", "f">>),
    Attachment(<<>>) }

NestedParts == {
    Multipart(<<>>),
    Multipart(<<Plain(<<"P", "2">>)>>),
    Multipart(<<Plain(<<>>)>>),
    Multipart(<<Html(<<"H", "2">>)>>),
    Multipart(<<Html(<<"H", "2">>), Plain(<<"P", "2">>)>>),
    Multipart(<<Attachment(<<>>)>>),
    Multipart(<<Multipart(<<Attachment(<<"b", ".", "p", "n", "g">>)>>)>>),
    Multipart(<<Multipart(<<Html(<<"H", "3">>)>>)>>) }

RECURSIVE PartLists(_)
PartLists(n) ==
    IF n = 0 THEN {<<>>}
    ELSE LET shorter == PartLists(n - 1)
         IN  shorter \cup {Append(p, e) : p \in {q \in shorter : Len(q) = n - 1},
                                          e \in Leaves \cup NestedParts}

\* a message without parts, and the multipart messages
Payloads ==
    {Html(<<"H", "0">>), Part(TextPlain, <<>>, Absent, Absent),
     Attachment(<<"a", ".", "p", "d", "f">>)}
        \cup {Multipart(ps) : ps \in PartLists(MaxParts)}

NoPayload == Part(TextPlain, <<>>, Absent, Absent)

(***************************************************************************)
(* Gmail authentication (get_gmail_service).  A Credentials object is      *)
(* known by whether it carries an access token, whether that token is      *)
(* expired and whether it carries a refresh token; creds = None is         *)
(* NoCredentials.                                                          *)
(***************************************************************************)
Credentials(token, expired, refresh_token) ==
    [some |-> TRUE, token |-> token, expired |-> expired,
     refresh_token |-> refresh_token]

NoCredentials ==
    [some |-> FALSE, token |-> FALSE, expired |-> FALSE,
     refresh_token |-> FALSE]

\* creds.valid: an access token that is not expired
Valid(c) == c.some /\ c.token /\ ~c.expired

\* token.json: absent, not loadable, or the credentials it holds
NoTokenFile == [state |-> "missing", creds |-> NoCredentials]

Unloadable == [state |-> "unloadable", creds |-> NoCredentials]

TokenFileOf(c) == [state |-> "token", creds |-> c]

TokenFiles ==
    {NoTokenFile, Unloadable}
        \cup {TokenFileOf(Credentials(t, x, r)) : t, x, r \in BOOLEAN}

\* what a step of the call did, and whether creds was valid when it did
Did(what, c) == [did |-> what, valid |-> Valid(c)]

(***************************************************************************)
(* The wall clock.                                                         *)
(***************************************************************************)
StartOrdinal == Ymd2Ord(2024, 3, 15)

Slot(t) == (t.ord - StartOrdinal) * SlotsPerDay + t.tod

Later(t, k) ==
    LET n == Slot(t) + k
    IN  [ord |-> StartOrdinal + n \div SlotsPerDay, tod |-> n % SlotsPerDay]

NoIntent ==
    [user_query |-> None, sender |-> None, after_date |-> None,
     before_date |-> None, has_attachment |-> "None", label |-> None]

NoQuery == [kind |-> "none", text |-> <<>>]

NoRange == [min_amount |-> NoBound, max_amount |-> NoBound]

NoResult == [kind |-> "none", value |-> <<>>]

\* no list request is in flight, and the request list(maxResults=n)
NoRequest == [sent |-> FALSE, maxResults |-> 0]

Request(n) == [sent |-> TRUE, maxResults |-> n]

Init ==
    /\ clock = [ord |-> StartOrdinal, tod |-> 0]
    /\ padYear \in BOOLEAN
    /\ op = "idle"
    /\ expr = <<>>
    /\ base = <<>>
    /\ outcome = NotCalled
    /\ callNow = clock
    /\ intent = NoIntent
    /\ afterOut = NotCalled
    /\ beforeOut = NotCalled
    /\ query = NoQuery
    /\ text = <<>>
    /\ groups = NoGroups
    /\ amounts = <<>>
    /\ emails = <<>>
    /\ range = NoRange
    /\ result = NoResult
    /\ emailsAfter = <<>>
    /\ payloadArg = NoPayload
    /\ filesWritten = {}
    /\ tokenFile = NoTokenFile
    /\ authPc = "idle"
    /\ creds = NoCredentials
    /\ tokenLoaded = NoCredentials
    /\ authLog = <<>>
    /\ service = NoCredentials
    /\ searchPc = "idle"
    /\ max_results = 0
    /\ resultsLen = 0
    /\ page_token = FALSE
    /\ request = NoRequest
    /\ messagesLeft = 0
    /\ nextPageToken = FALSE
    /\ listCalls = 0
    /\ turnPc = "input"
    /\ response = <<>>
    /\ loopCalls = <<>>
    /\ issued = {}
    /\ executed = {}

\* time passes between two calls
Tick ==
    /\ op = "idle"
    /\ Slot(clock) < MaxClockSlots
    /\ clock' = Later(clock, 1)
    /\ callNow' = clock'
    /\ UNCHANGED <<padYear, op, expr, base, outcome, intent, afterOut,
                   beforeOut, query, text, groups, amounts, mail,
                   remote, stepwise>>

\* a caller calls parse_relative_date(date_str)
ResolveCall ==
    /\ op = "idle"
    /\ \E b \in BaseExprs, k \in Spellings :
        /\ base' = b
        /\ expr' = Spell(b, k)
        /\ outcome' = parse_relative_date(Spell(b, k), clock)
    /\ op' = "resolve"
    /\ callNow' = clock
    /\ UNCHANGED <<clock, padYear, intent, afterOut, beforeOut, query, text,
                   groups, amounts, mail,
                   remote, stepwise>>

\* a caller calls convert_natural_language_to_gmail_query; the clock may
\* advance between the two calls of parse_relative_date
Translate ==
    /\ op = "idle"
    /\ \E uq \in Keywords, sd \in Senders, ad \in DateFilters,
          bd \in DateFilters, ha \in Attachments, lb \in Labels,
          k \in 0..MaxClockSlots :
        LET i == [user_query |-> uq, sender |-> sd, after_date |-> ad,
                  before_date |-> bd, has_attachment |-> ha, label |-> lb]
            now2 == Later(clock, k)
        IN  /\ Slot(clock) + k <= MaxClockSlots
            /\ intent' = i
            /\ afterOut' = DateOutcome(ad, clock)
            /\ beforeOut' = DateOutcome(bd, now2)
            /\ query' = convert_natural_language_to_gmail_query(i, clock, now2, padYear)
            /\ clock' = now2
    /\ op' = "translate"
    /\ callNow' = clock
    /\ UNCHANGED <<padYear, expr, base, outcome, text, groups, amounts,
                   mail,
                   remote, stepwise>>

\* the caller takes the result; the next call starts from a clean record
Return ==
    /\ op # "idle"
    /\ op' = "idle"
    /\ expr' = <<>>
    /\ base' = <<>>
    /\ outcome' = NotCalled
    /\ callNow' = clock
    /\ intent' = NoIntent
    /\ afterOut' = NotCalled
    /\ beforeOut' = NotCalled
    /\ query' = NoQuery
    /\ text' = <<>>
    /\ groups' = NoGroups
    /\ amounts' = <<>>
    /\ emails' = <<>>
    /\ range' = NoRange
    /\ result' = NoResult
    /\ emailsAfter' = <<>>
    /\ payloadArg' = NoPayload
    /\ UNCHANGED <<clock, padYear, filesWritten, stepwise>>

\* a caller calls extract_amounts_from_text(text)
ExtractCall ==
    /\ op = "idle"
    /\ \E t \in Texts :
        \E gss \in {MatchGroups(t)} :
            /\ text' = t
            /\ groups' = gss
            /\ amounts' = unique_amounts(gss)
    /\ op' = "extract"
    /\ callNow' = clock
    /\ UNCHANGED <<clock, padYear, expr, base, outcome, intent, afterOut,
                   beforeOut, query, mail,
                   remote, stepwise>>

\* the variables of the calls on dates, queries and texts
texts == <<clock, padYear, expr, base, outcome, intent, afterOut, beforeOut,
           query, text, groups, amounts>>

\* the variables of the operations that take a single step
single == <<op, callNow, texts, mail, remote>>

\* a caller calls extract_amounts_from_email(email, min_amount, max_amount)
EmailCall ==
    /\ op = "idle"
    /\ \E e \in Emails, lo \in Lows, hi \in Highs :
        /\ emails' = <<e>>
        /\ range' = [min_amount |-> lo, max_amount |-> hi]
        /\ result' = extract_amounts_from_email(e, lo, hi)
        /\ emailsAfter' = <<e>>
    /\ op' = "email"
    /\ callNow' = clock
    /\ UNCHANGED <<texts, remote, stepwise>>

\* a caller calls extract_amounts_from_multiple_emails
BatchCall ==
    /\ op = "idle"
    /\ \E es \in Batches(MaxBatch), lo \in Lows, hi \in Highs :
        /\ emails' = es
        /\ range' = [min_amount |-> lo, max_amount |-> hi]
        /\ result' = extract_amounts_from_multiple_emails(es, lo, hi)
        /\ emailsAfter' = es
    /\ op' = "batch"
    /\ callNow' = clock
    /\ UNCHANGED <<texts, remote, stepwise>>

\* a caller calls filter_emails_by_amount
FilterCall ==
    /\ op = "idle"
    /\ \E es \in Batches(MaxBatch), lo \in Lows, hi \in Highs :
        \E r \in {filter_emails_by_amount(es, lo, hi)} :
            /\ emails' = es
            /\ range' = [min_amount |-> lo, max_amount |-> hi]
            /\ result' = [kind |-> r.kind, value |-> r.value]
            /\ emailsAfter' = r.emails
    /\ op' = "filter"
    /\ callNow' = clock
    /\ UNCHANGED <<texts, remote, stepwise>>

Next ==
    \/ Tick
    \/ ResolveCall
    \/ Translate
    \/ Return

Spec == Init /\ [][Next]_vars

\* the calls of parser_tools alone
InitExtract == Init /\ ~padYear

NextExtract ==
    \/ ExtractCall
    \/ Return

SpecExtract == InitExtract /\ [][NextExtract]_vars

\* a caller calls export_emails_to_csv(emails) on one of the lists; to_csv
\* (line 167) creates or replaces the file at the path
Export(lists) ==
    /\ op = "idle"
    /\ \E es \in lists, writable \in BOOLEAN :
        \E r \in {export_emails_to_csv(es, clock, writable)} :
            /\ emails' = es
            /\ result' = Returns(r)
            /\ emailsAfter' = es
            /\ filesWritten' = IF r.success THEN filesWritten \cup {r.filepath}
                                             ELSE filesWritten
    /\ range' = NoRange
    /\ op' = "export"
    /\ callNow' = clock
    /\ UNCHANGED <<texts, payloadArg, stepwise>>

ExportCall == Export(ExportBatches(MaxBatch))

\* fetch_email_details calls extract_body(message['payload'])
BodyCall ==
    /\ op = "idle"
    /\ \E p \in Payloads :
        /\ payloadArg' = p
        /\ result' = extract_body(p)
    /\ op' = "body"
    /\ callNow' = clock
    /\ UNCHANGED <<texts, emails, range, emailsAfter, filesWritten, stepwise>>

\* fetch_email_details calls has_attachment_check(message['payload'])
AttachmentCall ==
    /\ op = "idle"
    /\ \E p \in Payloads :
        /\ payloadArg' = p
        /\ result' = Returns(has_attachment_check(p))
    /\ op' = "attachment"
    /\ callNow' = clock
    /\ UNCHANGED <<texts, emails, range, emailsAfter, filesWritten, stepwise>>

\* the lists exported in a session: none, search results, fetched details,
\* and a list the export fails on
SessionLists == {
    <<>>,
    <<SearchSummary(Dated)>>,
    <<SearchSummary(Dated), SearchSummary(Undated)>>,
    <<FetchedDetails(Undated, <<>>, FALSE)>>,
    <<NotAMapping(<<"o", "o", "p", "s">>)>> }

\* one more export of a session
SessionExport == Export(SessionLists)

\* the exports of a session as the clock goes on
NextSession ==
    \/ SessionExport
    \/ Tick
    \/ Return

SpecSession == InitExtract /\ [][NextSession]_vars

\* the calls on message payloads
NextPayload ==
    \/ BodyCall
    \/ AttachmentCall
    \/ Return

SpecPayload == InitExtract /\ [][NextPayload]_vars

\* a caller hands the list filter_emails_by_amount returned to
\* filter_emails_by_amount again, with the same bounds
RefilterCall ==
    /\ op = "idle"
    /\ \E es \in Batches(MaxBatch), lo \in Lows, hi \in Highs :
        \E first \in {filter_emails_by_amount(es, lo, hi)} :
            \E r \in {IF first.kind = "ok"
                      THEN filter_emails_by_amount(first.value, lo, hi)
                      ELSE first} :
                /\ emails' = es
                /\ range' = [min_amount |-> lo, max_amount |-> hi]
                /\ result' = [kind |-> r.kind, value |-> r.value]
                /\ emailsAfter' = first.emails
    /\ op' = "refilter"
    /\ callNow' = clock
    /\ UNCHANGED <<texts, remote, stepwise>>

\* the calls of parser_tools on email records
NextAmounts ==
    \/ EmailCall
    \/ BatchCall
    \/ FilterCall
    \/ RefilterCall
    \/ Return

SpecAmounts == InitExtract /\ [][NextAmounts]_vars

\* the calls of export_tools
NextExport ==
    \/ ExportCall
    \/ Return

SpecExport == InitExtract /\ [][NextExport]_vars

(***************************************************************************)
(* The tool implementations and handle_tool_call (src/agent.py).  A tool   *)
(* result is the record of the returned mapping.                           *)
(***************************************************************************)
\* d['success'] = True
WithSuccess(fields) == [success |-> TRUE] @@ fields

\* gmail_tools.py lines 536-543
SearchFailed ==
    [success |-> FALSE, query |-> <<>>, count |-> 0, results |-> <<>>]

\* gmail_tools.py lines 516-543; gmail_query is what
\* convert_natural_language_to_gmail_query does with the arguments and
\* searched is what search_gmail does
gmail_search_impl(gmail_query, searched) ==
    IF gmail_query.kind # "ok" \/ searched.kind # "ok"
    THEN Returns(SearchFailed)
    ELSE Returns([success |-> TRUE, query |-> gmail_query.text,
                  count |-> Len(searched.value),
                  results |-> searched.value])

\* the queries of the calls with an after_date
Converted(now, pad) ==
    {convert_natural_language_to_gmail_query(
        [NoIntent EXCEPT !.after_date = ad], now, now, pad) : ad \in DateFilters}

\* gmail_tools.py lines 579-588; fetched is what fetch_email_details does
email_fetcher_impl(email_id, fetched) ==
    IF fetched.kind = "ok" THEN Returns(WithSuccess(fetched.value.fields))
    ELSE Returns([success |-> FALSE, id |-> email_id])

\* parser_tools.py lines 221-232
AmountsFailed(email) ==
    [success |-> FALSE, email_id |-> Get(email, "id", <<>>),
     all_amounts |-> <<>>, filtered_amounts |-> <<>>, has_amounts |-> FALSE,
     matches_filter |-> FALSE, total_found |-> 0, total_matching |-> 0]

\* parser_tools.py lines 216-232: the handler calls email.get (line 225),
\* which raises again for an email that is no mapping
amount_extractor_impl(email, min_amount, max_amount) ==
    LET r == extract_amounts_from_email(email, min_amount, max_amount)
    IN  IF r.kind = "ok" THEN Returns(WithSuccess(r.value))
        ELSE IF ~IsDict(email) THEN Raises("AttributeError")
        ELSE Returns(AmountsFailed(email))

\* agent.py lines 186-191
tool_implementations ==
    {"gmail_search", "email_fetcher", "amount_extractor", "csv_export"}

ToolNames == tool_implementations \cup {"web_search"}

\* what search_gmail and fetch_email_details may do
Searched ==
    {Returns(<<>>), Returns(<<SearchSummary(Dated)>>), Raises("Exception")}

Fetched == {Returns(FetchedDetails(Dated, <<>>, FALSE)), Raises("HttpError")}

EmailIds == {<<"m", "1">>, <<>>}

\* what the call tool_implementations[tool_name](**tool_args) of line 195
\* may do: the implementation returns its mapping, or an exception leaves
\* it (a TypeError for arguments that do not fit its parameters, the
\* AttributeError of amount_extractor_impl)
Called ==
    {Returns([success |-> TRUE]), Returns([success |-> FALSE]),
     Raises("TypeError"), Raises("AttributeError")}

\* agent.py lines 193-206; called is what the implementation did
handle_tool_call(tool_name, called) ==
    IF tool_name \in tool_implementations
    THEN IF called.kind = "ok" THEN called
         ELSE Returns([success |-> FALSE,
                       error |-> "Tool execution failed: " \o called.kind])
    ELSE Returns([success |-> FALSE, error |-> "Unknown tool: " \o tool_name])

\* a caller calls gmail_search_impl
SearchImplCall ==
    /\ op = "idle"
    /\ \E q \in Converted(clock, padYear), s \in Searched :
        result' = gmail_search_impl(q, s)
    /\ op' = "gmail_search_impl"
    /\ callNow' = clock
    /\ UNCHANGED <<texts, emails, range, emailsAfter, remote, stepwise>>

\* a caller calls email_fetcher_impl
FetchImplCall ==
    /\ op = "idle"
    /\ \E id \in EmailIds, f \in Fetched : result' = email_fetcher_impl(id, f)
    /\ op' = "email_fetcher_impl"
    /\ callNow' = clock
    /\ UNCHANGED <<texts, emails, range, emailsAfter, remote, stepwise>>

\* a caller calls amount_extractor_impl
AmountImplCall ==
    /\ op = "idle"
    /\ \E em \in Emails, lo \in Lows, hi \in Highs :
        /\ emails' = <<em>>
        /\ range' = [min_amount |-> lo, max_amount |-> hi]
        /\ result' = amount_extractor_impl(em, lo, hi)
        /\ emailsAfter' = <<em>>
    /\ op' = "amount_extractor_impl"
    /\ callNow' = clock
    /\ UNCHANGED <<texts, remote, stepwise>>

\* the agent loop calls handle_tool_call(tool_name, tool_args)
HandleToolCall ==
    /\ op = "idle"
    /\ \E tool_name \in ToolNames, called \in Called :
        result' = handle_tool_call(tool_name, called)
    /\ op' = "handle_tool_call"
    /\ callNow' = clock
    /\ UNCHANGED <<texts, emails, range, emailsAfter, remote, stepwise>>

\* the calls of the tools; csv_export_impl is export_emails_to_csv
NextTools ==
    \/ SearchImplCall
    \/ FetchImplCall
    \/ AmountImplCall
    \/ SessionExport
    \/ HandleToolCall
    \/ Tick
    \/ Return

SpecTools == InitExtract /\ [][NextTools]_vars

(***************************************************************************)
(* search_gmail, step by step.  The list results is known by its length:   *)
(* a summary is appended for every message whose fetch succeeds.           *)
(***************************************************************************)
PageCap == 100

\* line 268 without the cap
page_size_uncapped(remaining) == remaining

\* line 268
page_size(remaining) == Min(remaining, PageCap)

\* the max_results of the calls and the lengths of the provider's pages
MaxResultsValues == {-1, 0, 2, PageCap + 1}

PageLengths == {0, 1, 2, PageCap}

\* lines 260-263: a caller calls search_gmail; get_gmail_service may raise
SearchCall ==
    /\ searchPc = "idle"
    /\ \E n \in MaxResultsValues : max_results' = n
    /\ \E authenticated \in BOOLEAN :
        searchPc' = IF authenticated THEN "while" ELSE "raised"
    /\ resultsLen' = 0
    /\ page_token' = FALSE
    /\ listCalls' = 0
    /\ UNCHANGED <<request, messagesLeft, nextPageToken, authVars, turnVars, single>>

\* lines 265-276: the loop test and the list request
ListRequest ==
    /\ searchPc = "while"
    /\ IF resultsLen < max_results
       THEN /\ request' = Request(page_size(max_results - resultsLen))
            /\ listCalls' = listCalls + 1
            /\ searchPc' = "list"
       ELSE /\ searchPc' = "returned"
            /\ UNCHANGED <<request, listCalls>>
    /\ UNCHANGED <<max_results, resultsLen, page_token, messagesLeft,
                   nextPageToken, authVars, turnVars, single>>

\* lines 276-281: the provider answers with a page of any length, with or
\* without a continuation token, or the request fails; an empty page ends
\* the loop.  The provider hands out at most MaxPages continuation tokens.
ListResponse ==
    /\ searchPc = "list"
    /\ \/ /\ searchPc' = "raised"
          /\ UNCHANGED <<messagesLeft, nextPageToken>>
       \/ \E n \in PageLengths, token \in BOOLEAN :
            /\ token => listCalls < MaxPages
            /\ messagesLeft' = n
            /\ nextPageToken' = token
            /\ searchPc' = IF n = 0 THEN "returned" ELSE "for"
    /\ request' = NoRequest
    /\ UNCHANGED <<max_results, resultsLen, page_token, listCalls, authVars,
                   turnVars, single>>

\* lines 286-301: the fetch of the next message succeeds and its summary is
\* appended; the for loop ends at max_results summaries
FetchSucceeds ==
    /\ searchPc = "for"
    /\ resultsLen' = resultsLen + 1
    /\ messagesLeft' = messagesLeft - 1
    /\ searchPc' = IF resultsLen' >= max_results \/ messagesLeft' = 0
                   THEN "token" ELSE "for"
    /\ UNCHANGED <<max_results, page_token, request, nextPageToken, listCalls,
                   authVars, turnVars, single>>

\* lines 286-291, 302-303: the fetch of the next message raises; the handler
\* prints a warning and the for loop goes on
FetchFails ==
    /\ searchPc = "for"
    /\ messagesLeft' = messagesLeft - 1
    /\ searchPc' = IF messagesLeft' = 0 THEN "token" ELSE "for"
    /\ UNCHANGED <<max_results, resultsLen, page_token, request,
                   nextPageToken, listCalls, authVars, turnVars, single>>

\* lines 306-308: the continuation token of the response
NextPage ==
    /\ searchPc = "token"
    /\ page_token' = nextPageToken
    /\ searchPc' = IF nextPageToken THEN "while" ELSE "returned"
    /\ messagesLeft' = 0
    /\ UNCHANGED <<max_results, resultsLen, request, nextPageToken, listCalls,
                   authVars, turnVars, single>>

\* lines 310-315: the caller has the list or the exception
SearchReturn ==
    /\ searchPc \in {"returned", "raised"}
    /\ searchPc' = "idle"
    /\ max_results' = 0
    /\ resultsLen' = 0
    /\ page_token' = FALSE
    /\ request' = NoRequest
    /\ messagesLeft' = 0
    /\ nextPageToken' = FALSE
    /\ listCalls' = 0
    /\ UNCHANGED <<authVars, turnVars, single>>

\* the statements of a running call
SearchStep ==
    ListRequest \/ ListResponse \/ FetchSucceeds \/ FetchFails \/ NextPage

NextSearch ==
    \/ SearchCall
    \/ ListRequest
    \/ ListResponse
    \/ FetchSucceeds
    \/ FetchFails
    \/ NextPage
    \/ SearchReturn

SpecSearch == InitExtract /\ [][NextSearch]_vars

\* a running call takes its next step: the code is sequential, and a
\* request to the provider is answered or fails
SpecSearchFair == SpecSearch /\ WF_vars(SearchStep)

(***************************************************************************)
(* get_gmail_service, statement by statement.                              *)
(***************************************************************************)
\* between two calls token.json may be removed, damaged or replaced, and the
\* token it holds may expire
TokenFileChanges ==
    /\ authPc = "idle"
    /\ \E f \in TokenFiles : f # tokenFile /\ tokenFile' = f
    /\ UNCHANGED <<authPc, creds, tokenLoaded, authLog, service, searchVars, turnVars, single>>

\* lines 60-81: the credentials.json test and the load of token.json
LoadToken ==
    /\ authPc = "idle"
    /\ \E credentialsFile \in BOOLEAN :
        IF ~credentialsFile
        THEN /\ authPc' = "raised"
             /\ authLog' = <<Did("FileNotFoundError", NoCredentials)>>
             /\ UNCHANGED <<creds, tokenLoaded>>
        ELSE /\ authPc' = "check"
             /\ creds' = IF tokenFile.state = "token" THEN tokenFile.creds
                         ELSE NoCredentials
             /\ tokenLoaded' = creds'
             /\ authLog' = <<>>
    /\ UNCHANGED <<tokenFile, service, searchVars, turnVars, single>>

\* lines 84-90: a valid token goes straight to build; an expired token
\* with a refresh token is refreshed, and a failed refresh drops creds
RefreshToken ==
    /\ authPc = "check"
    /\ IF creds.some /\ Valid(creds)
       THEN /\ authPc' = "build"
            /\ UNCHANGED <<creds, authLog>>
       ELSE /\ authPc' = "flow"
            /\ IF creds.some /\ creds.expired /\ creds.refresh_token
               THEN \E refreshed \in BOOLEAN :
                       IF refreshed
                       THEN /\ creds' = Credentials(TRUE, FALSE, TRUE)
                            /\ authLog' = Append(authLog, Did("refresh", creds'))
                       ELSE /\ creds' = NoCredentials
                            /\ authLog' = Append(authLog, Did("refresh failed", creds'))
               ELSE UNCHANGED <<creds, authLog>>
    /\ UNCHANGED <<tokenFile, tokenLoaded, service, searchVars, turnVars, single>>

\* lines 92-98: the interactive OAuth flow, run only when creds is None
RunFlow ==
    /\ authPc = "flow"
    /\ IF ~creds.some
       THEN \E granted \in BOOLEAN, refresh_token \in BOOLEAN :
               IF granted
               THEN /\ creds' = Credentials(TRUE, FALSE, refresh_token)
                    /\ authLog' = Append(authLog, Did("flow", creds'))
                    /\ authPc' = "save"
               ELSE /\ authLog' = Append(authLog, Did("OAuth authentication failed", creds))
                    /\ authPc' = "raised"
                    /\ UNCHANGED creds
       ELSE /\ authPc' = "save"
            /\ UNCHANGED <<creds, authLog>>
    /\ UNCHANGED <<tokenFile, tokenLoaded, service, searchVars, turnVars, single>>

\* lines 101-105: creds is written to token.json; a failure only warns
SaveToken ==
    /\ authPc = "save"
    /\ \E saved \in BOOLEAN :
        IF saved
        THEN /\ tokenFile' = TokenFileOf(creds)
             /\ authLog' = Append(authLog, Did("write", creds))
        ELSE /\ authLog' = Append(authLog, Did("write failed", creds))
             /\ UNCHANGED tokenFile
    /\ authPc' = "build"
    /\ UNCHANGED <<creds, tokenLoaded, service, searchVars, turnVars, single>>

\* lines 108-112: the service is built with creds
BuildService ==
    /\ authPc = "build"
    /\ \E built \in BOOLEAN :
        IF built
        THEN /\ service' = creds
             /\ authLog' = Append(authLog, Did("build", creds))
             /\ authPc' = "returned"
        ELSE /\ authLog' = Append(authLog, Did("Failed to build Gmail service", creds))
             /\ authPc' = "raised"
             /\ UNCHANGED service
    /\ UNCHANGED <<tokenFile, creds, tokenLoaded, searchVars, turnVars, single>>

\* the caller has the service or the exception
AuthReturn ==
    /\ authPc \in {"returned", "raised"}
    /\ authPc' = "idle"
    /\ creds' = NoCredentials
    /\ tokenLoaded' = NoCredentials
    /\ authLog' = <<>>
    /\ service' = NoCredentials
    /\ UNCHANGED <<tokenFile, searchVars, turnVars, single>>

NextAuth ==
    \/ TokenFileChanges
    \/ LoadToken
    \/ RefreshToken
    \/ RunFlow
    \/ SaveToken
    \/ BuildService
    \/ AuthReturn

SpecAuth == InitExtract /\ [][NextAuth]_vars

(***************************************************************************)
(* A turn of run_agent_interactive (src/agent.py).  A function call is     *)
(* known by its tool and its number among the calls of the turn; what the  *)
(* agent answers is its choice.                                            *)
(***************************************************************************)
CalledTools == {"gmail_search", "email_fetcher", "csv_export"}

RECURSIVE ToolLists(_)
ToolLists(n) ==
    IF n = 0 THEN {<<>>}
    ELSE LET shorter == ToolLists(n - 1)
         IN  shorter \cup {Append(l, t) : l \in {q \in shorter : Len(q) = n - 1},
                                          t \in CalledTools}

\* response.function_calls of a response that calls the tools of names,
\* after so many calls of the turn
FunctionCalls(names, before) ==
    [k \in DOMAIN names |-> [name |-> names[k], number |-> before + k]]

\* what agent.generate_content may answer
Responses(before) ==
    {FunctionCalls(names, before) :
        names \in {l \in ToolLists(MaxCalls) : before + Len(l) <= MaxIssued}}

CallsOf(calls) == {calls[k] : k \in DOMAIN calls}

\* lines 233-251: the user's message goes to the agent; the for loop is
\* entered over the function calls of this first response
UserMessage ==
    /\ turnPc = "input"
    /\ \E r \in Responses(0) :
        /\ response' = r
        /\ loopCalls' = r
        /\ issued' = CallsOf(r)
        /\ turnPc' = IF r # <<>> THEN "for" ELSE "display"
    /\ executed' = {}
    /\ UNCHANGED <<authVars, searchVars, single>>

\* lines 251-268: the next call of the loop is run by handle_tool_call and
\* its result is sent to the agent, whose answer is bound to response; the
\* loop goes on over the list it was entered with
ExecuteCall ==
    /\ turnPc = "for"
    /\ executed' = executed \cup {Head(loopCalls)}
    /\ \E r \in Responses(Cardinality(issued)) :
        /\ response' = r
        /\ issued' = issued \cup CallsOf(r)
        /\ loopCalls' = Tail(loopCalls)
    /\ turnPc' = IF loopCalls' # <<>> THEN "for" ELSE "display"
    /\ UNCHANGED <<authVars, searchVars, single>>

\* line 271: the text of the last response is displayed
DisplayText ==
    /\ turnPc = "display"
    /\ turnPc' = "shown"
    /\ UNCHANGED <<response, loopCalls, issued, executed, authVars,
                   searchVars, single>>

\* line 230: the loop waits for the next message of the user
NextTurn ==
    /\ turnPc = "shown"
    /\ turnPc' = "input"
    /\ response' = <<>>
    /\ loopCalls' = <<>>
    /\ issued' = {}
    /\ executed' = {}
    /\ UNCHANGED <<authVars, searchVars, single>>

NextChat ==
    \/ UserMessage
    \/ ExecuteCall
    \/ DisplayText
    \/ NextTurn

SpecChat == InitExtract /\ [][NextChat]_vars

(***************************************************************************)
(* Properties of convert_natural_language_to_gmail_query.                  *)
(***************************************************************************)
\* the clauses a translation is to emit, in the documented order, read off
\* the recorded call: the text of each and whether it is present
Clauses ==
    << [present |-> Truthy(intent.sender), text |-> K_from \o intent.sender],
       [present |-> afterOut.kind = "date",
        text |-> K_after \o Strftime(afterOut.ord, padYear)],
       [present |-> beforeOut.kind = "date",
        text |-> K_before \o Strftime(beforeOut.ord, padYear)],
       [present |-> intent.has_attachment = "True", text |-> K_attachment],
       [present |-> Truthy(intent.label), text |-> K_label \o intent.label],
       [present |-> Truthy(intent.user_query) /\ Strip(intent.user_query) # <<>>,
        text |-> Strip(intent.user_query)] >>

IsPresent(c) == c.present

PresentClauses == SelectSeq(Clauses, IsPresent)

\* the clauses separated by one space each
RECURSIVE Spaced(_)
Spaced(cs) ==
    IF Len(cs) = 0 THEN <<>>
    ELSE IF Len(cs) = 1 THEN cs[1].text
    ELSE Spaced(SubSeq(cs, 1, Len(cs) - 1)) \o <<" ">> \o cs[Len(cs)].text

OnlyKeywords ==
    /\ PresentClauses # <<>>
    /\ \A k \in 1..5 : ~Clauses[k].present

\* the result is the present clauses in order, one space between two
C1_Joined ==
    /\ query.kind = "ok"
    /\ query.text = IF PresentClauses = <<>> THEN K_wildcard ELSE Spaced(PresentClauses)
    /\ OnlyKeywords => query.text = Strip(intent.user_query)

EndsInWhitespace(t) == t # <<>> /\ t[Len(t)] \in Whitespace

\* the last clause is a sender or label clause whose value ends in whitespace
LastValueEndsInWhitespace ==
    /\ PresentClauses # <<>>
    /\ \E k \in {1, 5} :
        /\ PresentClauses[Len(PresentClauses)] = Clauses[k]
        /\ EndsInWhitespace(Clauses[k].text)

\* C1 as stated: the result of every translation is the present clauses in
\* the fixed order joined by one space, and has no leading or trailing space.
C1_NoOuterSpace ==
    op = "translate" =>
        /\ C1_Joined
        /\ query.text[1] \notin Whitespace
        /\ ~EndsInWhitespace(query.text)

\* C1 as amended: the result of every translation is the present clauses in
\* the fixed order (from, after, before, has:attachment only for true, label,
\* trimmed keywords) with exactly one space between two clauses and nothing
\* before the first or after the last; keywords alone give the trimmed
\* keywords, no clause gives "*"; sender and label are emitted as given, so
\* the result ends in whitespace only when its last clause is a sender or
\* label clause whose value does.
C1_ClausesInOrder ==
    op = "translate" =>
        /\ C1_Joined
        /\ query.text[1] \notin Whitespace
        /\ EndsInWhitespace(query.text) => LastValueEndsInWhitespace

\* a translation that emitted all six clauses
C1_AllClauses ==
    /\ op = "translate"
    /\ Len(PresentClauses) = 6
    /\ ~EndsInWhitespace(intent.sender)

\* C2: translation never fails; a date filter the resolver fails on (for
\* whatever reason) is left out, and the result is the one of the same
\* intent without that filter: every other clause is emitted unchanged.
Failed(out) == out.kind \notin {"none", "date"}

WithoutFailedDates ==
    [intent EXCEPT !.after_date = IF Failed(afterOut) THEN None ELSE @,
                   !.before_date = IF Failed(beforeOut) THEN None ELSE @]

C2_FailedDatesOmitted ==
    op = "translate" =>
        /\ query.kind = "ok"
        /\ query = convert_natural_language_to_gmail_query(
                       WithoutFailedDates, callNow, clock, padYear)

\* a translation whose after_date overflowed and whose before_date resolved
C2_OverflowOmitted ==
    /\ op = "translate"
    /\ afterOut.kind = "OverflowError"
    /\ beforeOut.kind = "date"
    /\ Truthy(intent.label)

\* C3: the query is a function of the intent and of the one current-time
\* reference of the call: every date filter is resolved against the clock
\* as it was when the translation was entered.
C3_SingleNow ==
    op = "translate" =>
        query = convert_natural_language_to_gmail_query(
                    intent, callNow, callNow, padYear)

\* the text after `prefix` up to the next space, for a clause-initial prefix
ClauseValue(prefix, t) ==
    LET starts == {i \in 1..(Len(t) - Len(prefix) + 1) :
                       /\ SubSeq(t, i, i + Len(prefix) - 1) = prefix
                       /\ (i = 1 \/ t[i - 1] = " ")}
        i == CHOOSE x \in starts : \A y \in starts : x <= y
        from == i + Len(prefix)
        stops == {j \in from..Len(t) : t[j] = " "}
        to == IF stops = {} THEN Len(t)
              ELSE (CHOOSE x \in stops : \A y \in stops : x <= y) - 1
    IN  IF starts = {} THEN <<>> ELSE SubSeq(t, from, to)

\* YYYY/MM/DD: four digits, two digits, two digits
IsYmdText(t) ==
    /\ Len(t) = 10
    /\ \A k \in 1..10 : IF k \in {5, 8} THEN t[k] = "/" ELSE IsDigit(t[k])

RoundTrips(prefix, out) ==
    out.kind = "date" =>
        LET tok == ClauseValue(prefix, query.text)
        IN  /\ IsYmdText(tok)
            /\ AbsParse(tok, callNow) = DateOut(out.ord, 0)

\* C8: the date text emitted after "after:" and "before:" is YYYY/MM/DD
\* (four-digit year, two-digit month and day) and, parsed back as an
\* absolute date, is the calendar date the resolver produced.
C8_RoundTrip ==
    op = "translate" =>
        /\ RoundTrips(K_after, afterOut)
        /\ RoundTrips(K_before, beforeOut)

(***************************************************************************)
(* Properties of parse_relative_date.  They are stated on `base`, the      *)
(* expression of the call in lower case and without outer whitespace.      *)
(***************************************************************************)
UnitWords == {T_day, T_week, T_month}

UnitsNamed(s) == {u \in UnitWords : Contains(u, s)}

DaysIn(u) == IF u = T_day THEN 1 ELSE IF u = T_week THEN 7 ELSE 30

\* a unit word together with "ago" or "last"
RelativeForm(s) ==
    /\ UnitsNamed(s) # {}
    /\ Contains(T_ago, s) \/ Contains(T_last, s)

\* where the integers embedded in s start
IntegerStarts(s) ==
    {i \in 1..Len(s) : IsDigit(s[i]) /\ (i = 1 \/ ~IsDigit(s[i - 1]))}

\* the integer that starts at position i of s
RECURSIVE IntegerAt(_, _, _)
IntegerAt(s, i, acc) ==
    IF i > Len(s) \/ ~IsDigit(s[i]) THEN acc
    ELSE IntegerAt(s, i + 1, 10 * acc + DigitVal(s[i]))

FirstInteger(s) ==
    IntegerAt(s, CHOOSE i \in IntegerStarts(s) : \A j \in IntegerStarts(s) : i <= j, 0)

\* the number written by all the digits of s, read left to right
RECURSIVE AllDigitsNumber(_, _)
AllDigitsNumber(s, acc) ==
    IF s = <<>> THEN acc
    ELSE AllDigitsNumber(Tail(s), IF IsDigit(Head(s)) THEN 10 * acc + DigitVal(Head(s)) ELSE acc)

\* the unit the resolver applies: the first of day, week, month that is named
AppliedUnit(s) ==
    IF T_day \in UnitsNamed(s) THEN T_day
    ELSE IF T_week \in UnitsNamed(s) THEN T_week
    ELSE T_month

Before(now, days) == DateOut(now.ord - days, now.tod)

\* C4: a relative expression naming one unit and carrying one count N
\* resolves to now - N days (day), now - 7N days (week), now - 30N days
\* (month); without digits week and month take N = 1 and a day form falls
\* through to absolute parsing.
C4_RelativeUnits ==
    (op = "resolve" /\ RelativeForm(base) /\ Cardinality(UnitsNamed(base)) = 1) =>
        LET u == CHOOSE x \in UnitsNamed(base) : TRUE
            n == Cardinality(IntegerStarts(base))
        IN  /\ n = 1 => outcome = Before(callNow, FirstInteger(base) * DaysIn(u))
            /\ (n = 0 /\ u # T_day) => outcome = Before(callNow, DaysIn(u))
            /\ (n = 0 /\ u = T_day) => outcome = AbsParse(base, callNow)

CountedRelative ==
    /\ op = "resolve"
    /\ RelativeForm(base)
    /\ IntegerStarts(base) # {}

\* C5 as stated: the count of a relative expression is its first embedded
\* integer, also when the expression holds several integers.
C5_FirstInteger ==
    (CountedRelative /\ outcome.kind = "date") =>
        outcome = Before(callNow, FirstInteger(base) * DaysIn(AppliedUnit(base)))

\* C5 as amended: the count N of a relative expression is the number written
\* by all its decimal digits in order ("2 days and 3 weeks ago" counts 23):
\* the resolver returns now - N units when that date exists, and fails only
\* when it does not.
C5_AllDigits ==
    CountedRelative =>
        LET days == AllDigitsNumber(base, 0) * DaysIn(AppliedUnit(base))
        IN  IF callNow.ord - days >= MinOrdinal
            THEN outcome = Before(callNow, days)
            ELSE outcome.kind # "date"

\* a resolved relative expression that holds two integers
C5_TwoIntegers ==
    /\ CountedRelative
    /\ Cardinality(IntegerStarts(base)) = 2
    /\ outcome.kind = "date"

\* C6: "yesterday" is now - 1 day, "today" is now, and the result of every
\* expression is the result of its lower-case form without outer whitespace.
C6_LiteralsAndSpelling ==
    op = "resolve" =>
        /\ outcome = parse_relative_date(base, callNow)
        /\ base = T_yesterday => outcome = Before(callNow, 1)
        /\ base = T_today => outcome = Before(callNow, 0)

\* "yesterday" resolved from an upper-case spelling wrapped in whitespace
C6_YesterdaySpelled ==
    /\ op = "resolve"
    /\ base = T_yesterday
    /\ expr # base
    /\ Len(expr) > Len(base)
    /\ expr[3] = "Y"
    /\ outcome.kind = "date"

\* C7: parse_relative_date returns a date or raises ValueError; no other
\* exception leaves it.
C7_OnlyValueError ==
    op = "resolve" => outcome.kind \in {"date", "ValueError"}

(***************************************************************************)
(* Properties of extract_amounts_from_text.                                *)
(***************************************************************************)
\* the amounts matched by the notations, notation after notation
Matched == AllMatches(groups, 1)

Values(as) == {as[k] : k \in 1..Len(as)}

FirstAt(as, v) == CHOOSE i \in 1..Len(as) : as[i] = v /\ \A j \in 1..(i - 1) : as[j] # v

\* C9: the returned list holds no value twice, holds exactly the values the
\* notations match, and orders them by their first occurrence when the
\* notations are applied one after another over the whole text; an empty or
\* absent text gives the empty list.
C9_DistinctFirstSeen ==
    op = "extract" =>
        LET matched == Matched
        IN  /\ \A i, j \in 1..Len(amounts) : i < j => amounts[i] # amounts[j]
            /\ Values(amounts) = Values(matched)
            /\ \A i, j \in 1..Len(amounts) :
                   i < j => FirstAt(matched, amounts[i]) < FirstAt(matched, amounts[j])
            /\ ~Truthy(text) => amounts = <<>>

\* an extraction that dropped a repeated value and kept two values
C9_RepeatedValue ==
    /\ op = "extract"
    /\ Len(amounts) >= 2
    /\ Len(Matched) > Len(amounts)

IsPlainInteger(d) == Len(d) >= 4 /\ \A k \in 1..Len(d) : IsDigit(d[k])

CurrencySigns == {"$", "€", "£", "¥"}

CurrencyCodes == {<<"u", "s", "d">>, <<"e", "u", "r">>, <<"g", "b", "p">>, <<"j", "p", "y">>}

\* a currency sign and four or more digits, as "$1000"
SignedPlain(t) == Len(t) >= 5 /\ t[1] \in CurrencySigns /\ IsPlainInteger(Tail(t))

\* four or more digits, a space and a currency code, as "1000 JPY"
CodedPlain(t) ==
    /\ Len(t) >= 8
    /\ Lower(SubSeq(t, Len(t) - 2, Len(t))) \in CurrencyCodes
    /\ t[Len(t) - 3] = " "
    /\ IsPlainInteger(SubSeq(t, 1, Len(t) - 4))

\* C10: an amount written with four or more digits and no thousands
\* separator ("$1000", "1000 JPY") is extracted as its full value, and
\* nothing else is extracted from it.
C10_PlainDigitsInFull ==
    (op = "extract" /\ Truthy(text)) =>
        /\ SignedPlain(text) => amounts = <<100 * DigitsValue(Tail(text))>>
        /\ CodedPlain(text) =>
               amounts = <<100 * DigitsValue(SubSeq(text, 1, Len(text) - 4))>>

\* match.group(1) of every match of notation k in the text of the call
Groups(k) == groups[k]

AllDigits(s) == \A k \in 1..Len(s) : IsDigit(s[k])

\* 1 to 3 digits, then zero or more groups of a comma and exactly 3 digits
IsGrouped(s) ==
    \E d \in 1..3 :
        /\ d <= Len(s)
        /\ (Len(s) - d) % 4 = 0
        /\ AllDigits(SubSeq(s, 1, d))
        /\ \A g \in 0..((Len(s) - d) \div 4 - 1) :
               /\ s[d + 4 * g + 1] = ","
               /\ AllDigits(SubSeq(s, d + 4 * g + 2, d + 4 * g + 4))

DotAt(s) == IF \E k \in 1..Len(s) : s[k] = "."
            THEN CHOOSE k \in 1..Len(s) : s[k] = "." /\ \A j \in 1..(k - 1) : s[j] # "."
            ELSE Len(s) + 1

\* the part of a numeral before its decimal point
IntegerPart(s) == SubSeq(s, 1, DotAt(s) - 1)

\* the decimal point of a numeral and what follows it
FractionPart(s) == SubSeq(s, DotAt(s), Len(s))

\* 1 to 3 digits, a comma, and one or two digits: "1,23"
MalformedNumber(s) ==
    \E d \in 1..3 :
        /\ Len(s) \in {d + 2, d + 3}
        /\ AllDigits(SubSeq(s, 1, d))
        /\ s[d + 1] = ","
        /\ AllDigits(SubSeq(s, d + 2, Len(s)))

\* a currency sign and a number with malformed grouping, as "$1,23"
SignedMalformed(t) ==
    Len(t) >= 2 /\ t[1] \in CurrencySigns /\ MalformedNumber(Tail(t))

\* a number with malformed grouping, a space and a currency code
CodedMalformed(t) ==
    /\ Len(t) >= 5
    /\ Lower(SubSeq(t, Len(t) - 2, Len(t))) \in CurrencyCodes
    /\ t[Len(t) - 3] = " "
    /\ MalformedNumber(SubSeq(t, 1, Len(t) - 4))

\* C11: every numeric value the extractor accepts is 1 to 3 digits followed
\* by zero or more comma-separated groups of exactly 3 digits, and a
\* currency-marked number with malformed grouping ("$1,23") contributes no
\* amount at all, not even a prefix of it.
C11_MalformedGroupingRejected ==
    op = "extract" =>
        /\ \A k \in 1..Len(CURRENCY_PATTERNS) :
               \A n \in 1..Len(Groups(k)) : IsGrouped(IntegerPart(Groups(k)[n]))
        /\ (Truthy(text) /\ (SignedMalformed(text) \/ CodedMalformed(text)))
               => amounts = <<>>

\* a numeral of the grouping shape, with two decimal digits or none
IsNumber(s) ==
    /\ IsGrouped(IntegerPart(s))
    /\ \/ FractionPart(s) = <<>>
       \/ Len(FractionPart(s)) = 3 /\ AllDigits(Tail(FractionPart(s)))

KeywordSet == Values(ContextWords) \cup Values(VerbWords)

\* the values of the numerals that end the text t and follow a keyword at
\* the start of t, sep or more characters of colon/whitespace, an optional
\* "$" and optional whitespace
KeywordAmounts(t, sep) ==
    { AmountOf(SubSeq(t, c, Len(t))) :
        c \in { c \in 2..Len(t) :
                  /\ IsNumber(SubSeq(t, c, Len(t)))
                  /\ \E kw \in KeywordSet :
                       /\ Len(kw) < c
                       /\ Lower(SubSeq(t, 1, Len(kw))) = kw
                       /\ \E b \in Len(kw)..(c - 1) :
                            /\ b - Len(kw) >= sep
                            /\ \A j \in (Len(kw) + 1)..b : t[j] \in Whitespace \cup {":"}
                            /\ \E d \in {b, b + 1} :
                                 /\ d <= c - 1
                                 /\ d = b + 1 => t[d] = "$"
                                 /\ \A j \in (d + 1)..(c - 1) : t[j] \in Whitespace } }

\* a keyword directly followed by a numeral, as "fee25"
Unseparated(t) ==
    \E kw \in KeywordSet :
        /\ Len(kw) < Len(t)
        /\ Lower(SubSeq(t, 1, Len(kw))) = kw
        /\ IsNumber(SubSeq(t, Len(kw) + 1, Len(t)))

\* C12 as stated: a keyword followed by optional colon/whitespace (none at
\* all included, "fee25"), an optional "$" and a numeric value yields that
\* value as an extracted amount.
C12_OptionalSeparator ==
    (op = "extract" /\ Truthy(text)) =>
        KeywordAmounts(text, 0) \subseteq Values(amounts)

\* C12 as amended: a keyword followed by at least one colon or whitespace
\* character, an optional "$", optional whitespace and a numeral that ends
\* the text yields the numeral's value; a keyword directly followed by the
\* numeral ("fee25") yields nothing.
C12_SeparatorRequired ==
    (op = "extract" /\ Truthy(text)) =>
        /\ KeywordAmounts(text, 1) \subseteq Values(amounts)
        /\ Unseparated(text) => amounts = <<>>

\* a keyword, a colon and an amount, as "total:50.00"
C12_ColonSeparated ==
    /\ op = "extract"
    /\ Truthy(text)
    /\ \E k \in 1..Len(text) : text[k] = ":"
    /\ KeywordAmounts(text, 1) # {}
    /\ KeywordAmounts(text, 1) \subseteq Values(amounts)

\* a yen sign or code with a numeral of 1 to 3 digits and the fraction f
YenForm(t, f) ==
    \E d \in 1..3 :
        \/ /\ Len(t) = 1 + d + Len(f)
           /\ t[1] = "¥"
           /\ AllDigits(SubSeq(t, 2, d + 1))
           /\ SubSeq(t, d + 2, Len(t)) = f
        \/ /\ Len(t) = d + Len(f) + 4
           /\ AllDigits(SubSeq(t, 1, d))
           /\ SubSeq(t, d + 1, d + Len(f)) = f
           /\ t[d + Len(f) + 1] = " "
           /\ Lower(SubSeq(t, d + Len(f) + 2, Len(t))) = <<"j", "p", "y">>

YenNumeral(t) ==
    IF t[1] = "¥" THEN Tail(t) ELSE SubSeq(t, 1, Len(t) - 4)

OneDigitFractions == {<<".", Digits[k]>> : k \in 1..10}

\* the fractions of the numerals notation k captured in the text
GroupFractions(k) ==
    LET gs == Groups(k)
    IN  {FractionPart(gs[n]) : n \in 1..Len(gs)}

\* no fraction, or a dot and exactly 2 digits
TwoDigits(f) == f = <<>> \/ (Len(f) = 3 /\ AllDigits(Tail(f)))

\* no fraction, or a dot and at most 2 digits
UpToTwoDigits(f) == Len(f) <= 3 /\ (f # <<>> => AllDigits(Tail(f)))

\* C13 as stated: a yen amount is recognised with 0 or 2 decimal digits
\* only (never with a one-digit fraction or a bare trailing dot), and the
\* other currencies carry a fraction only when it has exactly 2 digits.
C13_YenZeroOrTwo ==
    op = "extract" =>
        \A k \in 1..Len(CURRENCY_PATTERNS) :
            \A f \in GroupFractions(k) :
                IF CURRENCY_PATTERNS[k].yen THEN Len(f) \in {0, 3} ELSE TwoDigits(f)

\* C13 as amended: a yen amount is recognised with 0, 1 or 2 decimal
\* digits: "¥100.5" and "100.5 JPY" give 100.5, and a bare trailing dot
\* gives the integer value; the other currencies carry a fraction only when
\* it has exactly 2 digits.
C13_YenUpToTwo ==
    (op = "extract" /\ Truthy(text)) =>
        /\ \A k \in 1..Len(CURRENCY_PATTERNS) :
               \A f \in GroupFractions(k) :
                   IF CURRENCY_PATTERNS[k].yen THEN UpToTwoDigits(f) ELSE TwoDigits(f)
        /\ \A f \in OneDigitFractions :
               YenForm(text, f) =>
                   amounts = <<100 * DigitsValue(IntegerPart(YenNumeral(text)))
                                 + 10 * DigitsValue(Tail(f))>>
        /\ YenForm(text, <<".">>) =>
               amounts = <<100 * DigitsValue(IntegerPart(YenNumeral(text)))>>

\* a yen amount with a one-digit fraction was extracted
C13_YenOneDigit ==
    /\ op = "extract"
    /\ Truthy(text)
    /\ \E f \in OneDigitFractions : YenForm(text, f)
    /\ Len(amounts) = 1
    /\ amounts[1] % 100 # 0

(***************************************************************************)
(* Properties of the calls on email records.                               *)
(***************************************************************************)
\* the amounts found in the subject, body and snippet of a record, a
\* missing or null field counting as empty text
FieldAmounts(e) ==
    UNION {SetOf(AmountsIn[Get(e, k, <<>>)]) : k \in {"subject", "body", "snippet"}}

StrictlyDescending(as) == \A i, j \in 1..Len(as) : i < j => as[i] > as[j]

\* C14: all_amounts of extract_amounts_from_email is the union of the
\* amounts of subject, body and snippet (a missing or null field is empty
\* text), without duplicates, in strictly descending order; the call
\* returns for every record; subject "$100", body "$200", min 150 gives
\* all_amounts [200.0, 100.0], filtered_amounts [200.0], matches_filter.
C14_UnionDescending ==
    (op = "email" /\ IsDict(emails[1])) =>
        /\ result.kind = "ok"
        /\ SetOf(result.value.all_amounts) = FieldAmounts(emails[1])
        /\ StrictlyDescending(result.value.all_amounts)
        /\ ( /\ Get(emails[1], "subject", <<>>) = <<"$", "1", "0", "0">>
             /\ Get(emails[1], "body", <<>>) = <<"$", "2", "0", "0">>
             /\ Get(emails[1], "snippet", <<>>) \in {<<>>, None}
             /\ range = [min_amount |-> Bound(15000), max_amount |-> NoBound] )
           => /\ result.value.all_amounts = <<20000, 10000>>
              /\ result.value.filtered_amounts = <<20000>>
              /\ result.value.matches_filter

\* the example of C14: subject "$100", body "$200", empty snippet, min 150
C14_Example ==
    /\ op = "email"
    /\ IsDict(emails[1])
    /\ Get(emails[1], "subject", <<>>) = <<"$", "1", "0", "0">>
    /\ Get(emails[1], "body", <<>>) = <<"$", "2", "0", "0">>
    /\ Get(emails[1], "snippet", Missing) = <<>>
    /\ range = [min_amount |-> Bound(15000), max_amount |-> NoBound]
    /\ result.value.all_amounts = <<20000, 10000>>

\* the extraction results the call returned
ResultsOfCall ==
    IF result.kind # "ok" THEN <<>>
    ELSE IF op = "email" THEN <<result.value>>
    ELSE IF op = "batch" THEN result.value
    ELSE <<>>

InRange(a) ==
    /\ range.min_amount.set => a >= range.min_amount.at
    /\ range.max_amount.set => a <= range.max_amount.at

\* C15: filtered_amounts is the sub-sequence of all_amounts of the values
\* inside the range, bounds inclusive and a bound of 0 a bound; it keeps
\* the descending order, total_found and total_matching are the two
\* lengths, matches_filter holds iff filtered_amounts is not empty, and
\* matches_filter implies has_amounts.
C15_FilteredInRange ==
    \A n \in 1..Len(ResultsOfCall) :
        LET r == ResultsOfCall[n]
        IN  /\ SetOf(r.filtered_amounts) = {a \in SetOf(r.all_amounts) : InRange(a)}
            /\ StrictlyDescending(r.filtered_amounts)
            /\ r.total_found = Len(r.all_amounts)
            /\ r.total_matching = Len(r.filtered_amounts)
            /\ r.matches_filter <=> r.filtered_amounts # <<>>
            /\ r.has_amounts <=> r.all_amounts # <<>>
            /\ r.matches_filter => r.has_amounts

\* a maximum of 0 filtered out every amount of a record with amounts
C15_ZeroMaximum ==
    /\ op = "email"
    /\ result.kind = "ok"
    /\ range.max_amount = Bound(0)
    /\ result.value.has_amounts
    /\ ~result.value.matches_filter

\* the positions of the records of the batch with an amount in the range
Matching == {k \in 1..Len(emails) : \E a \in FieldAmounts(emails[k]) : InRange(a)}

\* the n-th position of Matching
NthMatching(n) ==
    CHOOSE k \in Matching : Cardinality({j \in Matching : j <= k}) = n

AmountKeys == {"detected_amounts", "all_amounts"}

\* C16: filter_emails_by_amount returns the records with an amount inside
\* the range, in input order, none dropped or duplicated; each carries
\* detected_amounts (its amounts inside the range) and all_amounts (all its
\* distinct amounts), and every other field as in the input record.
C16_ExactlyMatching ==
    (op = "filter" /\ \A k \in 1..Len(emails) : IsDict(emails[k])) =>
        /\ result.kind = "ok"
        /\ Len(result.value) = Cardinality(Matching)
        /\ \A n \in 1..Len(result.value) :
               LET out == result.value[n].fields
                   in == emails[NthMatching(n)].fields
                   all == FieldAmounts(emails[NthMatching(n)])
               IN  /\ DOMAIN out = DOMAIN in \cup AmountKeys
                   /\ \A k \in DOMAIN in \ AmountKeys : out[k] = in[k]
                   /\ out["all_amounts"] = SortDescending(all)
                   /\ out["detected_amounts"] =
                          SortDescending({a \in all : InRange(a)})

\* of a batch of two records with amounts, only the second was returned
C16_SecondOnly ==
    /\ op = "filter"
    /\ result.kind = "ok"
    /\ Len(emails) = 2
    /\ FieldAmounts(emails[1]) # {}
    /\ Matching = {2}
    /\ Len(result.value) = 1
    /\ result.value[1].fields["id"] = emails[2].fields["id"]

\* C17: after extract_amounts_from_email,
\* extract_amounts_from_multiple_emails or filter_emails_by_amount the
\* caller's list holds the same records in the same order, none with a
\* field gained, lost or changed.
C17_InputUnchanged ==
    op \in {"email", "batch", "filter"} => emailsAfter = emails

\* a filtering that returned a record with amount fields its input lacks
C17_OutputEnriched ==
    /\ op = "filter"
    /\ result.kind = "ok"
    /\ result.value # <<>>
    /\ \E k \in 1..Len(emails) :
           /\ IsDict(emails[k])
           /\ k \in Matching
           /\ "detected_amounts" \notin DOMAIN emails[k].fields
    /\ emailsAfter = emails

\* C18: a record that cannot be processed does not abort a batch
\* operation: the call returns, extract_amounts_from_multiple_emails
\* returns one result per record, and the failing record's result has no
\* amounts and matches_filter false.
C18_BatchSurvivesBadRecord ==
    op \in {"batch", "filter"} =>
        /\ result.kind = "ok"
        /\ op = "batch" =>
               /\ Len(result.value) = Len(emails)
               /\ \A k \in 1..Len(emails) :
                      ~IsDict(emails[k]) =>
                          /\ result.value[k].all_amounts = <<>>
                          /\ ~result.value[k].matches_filter

(***************************************************************************)
(* Properties of the CSV export.                                           *)
(***************************************************************************)
Exported == op = "export" /\ result.value.success

\* the cell of row k in the column named c
Cell(k, c) ==
    LET n == CHOOSE i \in 1..Len(column_order) : column_order[i] = c
    IN  result.value.file.rows[k][n]

\* the amounts of a record: detected_amounts or, when it has none,
\* all_amounts
ShownAmounts(e) ==
    IF Get(e, "detected_amounts", <<>>) # <<>> THEN e.fields["detected_amounts"]
    ELSE Get(e, "all_amounts", <<>>)

CountOfChar(t, c) == Cardinality({i \in 1..Len(t) : t[i] = c})

\* the parts of t between the occurrences of ", "
RECURSIVE SplitCommaSpace(_, _)
SplitCommaSpace(t, part) ==
    IF t = <<>> THEN <<part>>
    ELSE IF Len(t) >= 2 /\ SubSeq(t, 1, 2) = <<",", " ">>
    THEN <<part>> \o SplitCommaSpace(SubSeq(t, 3, Len(t)), <<>>)
    ELSE SplitCommaSpace(Tail(t), Append(part, Head(t)))

\* the value in hundredths of a token "$X.XX"
TokenValue(tok) == 100 * DigitsValue(SubSeq(tok, 2, Len(tok) - 3))
                       + DigitsValue(SubSeq(tok, Len(tok) - 1, Len(tok)))

\* C19: a successful export writes one row per input record, in input
\* order, under the nine columns ID, Date, From, To, Subject, Snippet,
\* Labels, Has_Attachments, Detected_Amounts, also for an empty input or
\* records that lack fields; Labels is the labels joined by commas,
\* Has_Attachments is "Yes" iff has_attachments is true and "No" otherwise,
\* Detected_Amounts has one "$"-prefixed token per amount of the record,
\* and the reported count is the number of input records.
C19_RowPerRecord ==
    Exported =>
        /\ result.value.file.header =
               <<"ID", "Date", "From", "To", "Subject", "Snippet", "Labels",
                 "Has_Attachments", "Detected_Amounts">>
        /\ Len(result.value.file.rows) = Len(emails)
        /\ result.value.count = Len(emails)
        /\ \A k \in 1..Len(emails) :
               /\ Len(result.value.file.rows[k]) = 9
               /\ Cell(k, "ID") = Get(emails[k], "id", <<>>)
               /\ Cell(k, "Subject") = Get(emails[k], "subject", <<>>)
               /\ IF Get(emails[k], "labels", <<>>) = <<>>
                  THEN Cell(k, "Labels") = <<>>
                  ELSE SplitCommaSpace(Cell(k, "Labels"), <<>>) = emails[k].fields["labels"]
               /\ Cell(k, "Has_Attachments") \in {Yes, No}
               /\ Cell(k, "Has_Attachments") = Yes
                      <=> Get(emails[k], "has_attachments", FALSE)
               /\ CountOfChar(Cell(k, "Detected_Amounts"), "$")
                      = Len(ShownAmounts(emails[k]))
               /\ ShownAmounts(emails[k]) # <<>> =>
                      LET toks == SplitCommaSpace(Cell(k, "Detected_Amounts"), <<>>)
                      IN  /\ Len(toks) = Len(ShownAmounts(emails[k]))
                          /\ \A n \in 1..Len(toks) :
                                 /\ toks[n][1] = "$"
                                 /\ TokenValue(toks[n]) = ShownAmounts(emails[k])[n]

\* an export of a full record with an amount, a label and an attachment,
\* followed by a record with nothing but an id
C19_FullThenBare ==
    /\ Exported
    /\ Len(emails) = 2
    /\ ShownAmounts(emails[1]) = <<20000>>
    /\ Cell(1, "Detected_Amounts") = <<"$", "2", "0", "0", ".", "0", "0">>
    /\ Get(emails[1], "has_attachments", FALSE)
    /\ Cell(1, "Has_Attachments") = Yes
    /\ DOMAIN emails[2].fields = {"id"}
    /\ Cell(2, "Has_Attachments") = No
    /\ Cell(2, "Detected_Amounts") = <<>>

\* the internal timestamp (epoch milliseconds) a record carries, if any
InternalTimestamp(e) ==
    Get(e, "internal_date", Get(e, "internalDate", <<>>))

\* a record without a primary date that carries a timestamp datetime can
\* represent
UndatedWithTimestamp(e) ==
    /\ IsDict(e)
    /\ ~Truthy(Get(e, "date", <<>>))
    /\ Truthy(InternalTimestamp(e))
    /\ FormatTimestamp(InternalTimestamp(e)).kind = "ok"

\* C20: the Date column of an exported record that has no primary date but
\* carries an internal timestamp is that timestamp as YYYY-MM-DD HH:MM:SS,
\* for the summaries search_gmail returns as well: such a row never has an
\* empty Date.
C20_DateFromTimestamp ==
    Exported =>
        \A k \in 1..Len(emails) :
            UndatedWithTimestamp(emails[k]) =>
                /\ Cell(k, "Date") # <<>>
                /\ Cell(k, "Date") = FormatTimestamp(InternalTimestamp(emails[k])).value

(***************************************************************************)
(* Properties of the calls on message payloads.                            *)
(***************************************************************************)
\* the parts of a list of parts at every depth, in document order
RECURSIVE PartsInOrder(_)
PartsInOrder(ps) ==
    IF ps = <<>> THEN <<>>
    ELSE <<Head(ps)>>
             \o (IF Head(ps).parts.set THEN PartsInOrder(Head(ps).parts.at) ELSE <<>>)
             \o PartsInOrder(Tail(ps))

\* the parts of the payload handed to the call, at every depth
AllParts == IF payloadArg.parts.set THEN PartsInOrder(payloadArg.parts.at) ELSE <<>>

\* a part of the media type mime whose data decodes
Decodable(part, mime) ==
    part.mimeType = mime /\ part.data.set /\ part.data.at.valid

\* the texts of the decodable parts of the media type among ps, in order
TextsOf(ps, mime) ==
    LET IsOne(part) == Decodable(part, mime)
        found == SelectSeq(ps, IsOne)
    IN  [k \in 1..Len(found) |-> found[k].data.at.text]

\* the text of the first decodable part of the media type: the first in
\* document order, or the first among the parts of the payload itself
FirstTexts(mime) ==
    {Head(ts) : ts \in {TextsOf(AllParts, mime), TextsOf(payloadArg.parts.at, mime)} \ {<<>>}}

\* no part of the payload carries data that base64 cannot decode
WellFormed == \A k \in 1..Len(AllParts) : AllParts[k].data.set => AllParts[k].data.at.valid

\* C21: for a multipart payload that contains a decodable text/plain part,
\* extract_body returns the text of the first such part, whatever text/html
\* part or nested multipart part (with or without HTML inside) precedes it.
\* Stated for the payloads all of whose data decodes and that have such a
\* part among their own parts.
C21_PlainPreferred ==
    (op = "body" /\ payloadArg.parts.set /\ WellFormed
        /\ TextsOf(payloadArg.parts.at, TextPlain) # <<>>) =>
        result \in {Returns(t) : t \in FirstTexts(TextPlain)}

\* C22: for a multipart payload with no decodable text/plain part at any
\* depth and a decodable text/html part, extract_body returns the content
\* of the first HTML part; a later part that yields nothing does not
\* replace it by an empty result.  Stated for the payloads all of whose
\* data decodes.
C22_HtmlFallback ==
    (op = "body" /\ payloadArg.parts.set /\ WellFormed
        /\ TextsOf(AllParts, TextPlain) = <<>> /\ TextsOf(AllParts, TextHtml) # <<>>) =>
        result \in {Returns(t) : t \in FirstTexts(TextHtml)}

FilteredOnce ==
    LET f == filter_emails_by_amount(emails, range.min_amount, range.max_amount)
    IN  [kind |-> f.kind, value |-> f.value]

\* C28: filtering the output of filter_emails_by_amount again with the same
\* bounds gives the same list: the same records in the same order with the
\* same detected_amounts and all_amounts.
C28_FilterIdempotent ==
    op = "refilter" => result = FilteredOnce

\* a list was filtered twice whose record carried amount fields before and
\* was given others by the first pass
C28_EnrichedTwice ==
    /\ op = "refilter"
    /\ result.kind = "ok"
    /\ \E k \in 1..Len(result.value) :
           /\ \A j \in 1..Len(emails) : emails[j] # result.value[k]
           /\ \E j \in 1..Len(emails) :
                  /\ "detected_amounts" \in DOMAIN emails[j].fields
                  /\ Get(emails[j], "id", <<>>) = Get(result.value[k], "id", <<>>)

(***************************************************************************)
(* Properties of a session of exports.                                     *)
(***************************************************************************)
\* C29: every successful export made without a filename writes to a path
\* no earlier export has written to, also when two exports are made within
\* the same second of the clock.
C29_FreshPath ==
    [][(op' = "export" /\ result'.value.success) =>
           result'.value.filepath \notin filesWritten]_vars

(***************************************************************************)
(* Properties of get_gmail_service.                                        *)
(***************************************************************************)
Steps == {authLog[i].did : i \in DOMAIN authLog}

\* a valid cached token is used as is: nothing but the build is done
ValidTokenUsedAsIs ==
    (authPc = "returned" /\ Valid(tokenLoaded))
        => /\ Steps = {"build"}
           /\ service = tokenLoaded

\* an expired token with a refresh token is refreshed
ExpiredTokenRefreshed ==
    (authPc \notin {"idle", "check"} /\ tokenLoaded.some
            /\ ~Valid(tokenLoaded) /\ tokenLoaded.expired
            /\ tokenLoaded.refresh_token)
        => authLog # <<>> /\ authLog[1].did \in {"refresh", "refresh failed"}

\* without a valid token after that, the flow runs before save and build
FlowBeforeBuild ==
    \A i \in DOMAIN authLog :
        (authLog[i].did \in {"write", "build"}
                /\ ~Valid(tokenLoaded) /\ "refresh" \notin Steps)
            => \E j \in 1..(i - 1) : authLog[j].did = "flow"

\* the service is never built with, and token.json never overwritten by,
\* credentials that are not valid
OnlyValidCredentialsUsed ==
    /\ service.some => Valid(service)
    /\ \A i \in DOMAIN authLog :
           authLog[i].did \in {"write", "build"} => authLog[i].valid

\* C26: get_gmail_service follows the documented token flow: a valid cached
\* token is used as is (no refresh, no OAuth flow, no rewrite of the token
\* file), an expired token with a refresh token is refreshed, and whenever
\* no valid token exists after that the OAuth flow runs before the service
\* is built, so that neither the service nor the token file ever gets
\* credentials that are not valid.
C26_TokenFlow ==
    /\ ValidTokenUsedAsIs
    /\ ExpiredTokenRefreshed
    /\ FlowBeforeBuild
    /\ OnlyValidCredentialsUsed

(***************************************************************************)
(* Properties of the tool implementations.                                 *)
(***************************************************************************)
ToolOps ==
    {"gmail_search_impl", "email_fetcher_impl", "amount_extractor_impl",
     "export", "handle_tool_call"}

\* C25: no tool implementation and no call of handle_tool_call raises to
\* its caller: every call returns a mapping with a success flag, whatever
\* the arguments and whatever fails inside.
C25_ToolsNeverRaise ==
    op \in ToolOps => result.kind = "ok" /\ result.value.success \in BOOLEAN

\* the same of the calls other than those of amount_extractor_impl
ToolsButAmountsNeverRaise ==
    op \in ToolOps \ {"amount_extractor_impl"}
        => result.kind = "ok" /\ result.value.success \in BOOLEAN

(***************************************************************************)
(* Properties of search_gmail.                                             *)
(***************************************************************************)
\* at most max_results summaries, none when max_results <= 0
ResultsBounded ==
    /\ resultsLen >= 0
    /\ resultsLen <= (IF max_results > 0 THEN max_results ELSE 0)

\* a list request asks for at least one and at most min(remaining, 100)
PageSizeBounded ==
    request.sent =>
        /\ request.maxResults >= 1
        /\ request.maxResults <= Min(max_results - resultsLen, PageCap)

\* a message whose fetch fails is not counted and the search goes on
FailedFetchSkipped ==
    [][FetchFails => resultsLen' = resultsLen /\ searchPc' \in {"for", "token"}]_vars

\* a list request is issued only while results are missing and, after the
\* first, only with the continuation token of the response before
RequestsOnlyWhileOpen ==
    [][(request'.sent /\ ~request.sent)
          => /\ resultsLen < max_results
             /\ listCalls > 0 => page_token /\ nextPageToken]_vars

\* an empty page, a response without continuation token and max_results
\* collected summaries each end the call, and an ended call requests nothing
StopsAreFinal ==
    [][/\ (searchPc = "list" /\ searchPc' # "raised" /\ messagesLeft' = 0)
            => searchPc' = "returned"
       /\ (searchPc = "token" /\ ~nextPageToken) => searchPc' = "returned"
       /\ (searchPc \in {"while", "token"} /\ resultsLen >= max_results)
            => ~request'.sent
       /\ searchPc \in {"returned", "raised"}
            => ~request'.sent /\ searchPc' \in {"returned", "raised", "idle"}]_vars

\* a running call ends
SearchTerminates ==
    (searchPc \notin {"idle", "returned", "raised"})
        ~> (searchPc \in {"returned", "raised"})

\* C24: for any sequence of provider pages and any pattern of failing
\* fetches, search_gmail collects at most max_results summaries (none for
\* max_results <= 0), never requests a page larger than min(remaining, 100),
\* skips a failing message without counting it or aborting, issues no list
\* request once max_results summaries are collected, a page was empty or a
\* response had no continuation token, and ends when the provider stops
\* handing out continuation tokens.
C24_SearchBoundedAndEnds ==
    /\ [](ResultsBounded /\ PageSizeBounded)
    /\ FailedFetchSkipped
    /\ RequestsOnlyWhileOpen
    /\ StopsAreFinal
    /\ SearchTerminates

\* a call for more than a page of results returns them after MaxPages
\* list requests
C24_CappedPagesCollected ==
    /\ searchPc = "returned"
    /\ max_results > PageCap
    /\ resultsLen = max_results
    /\ listCalls = MaxPages

(***************************************************************************)
(* Properties of run_agent_interactive.                                    *)
(***************************************************************************)
\* C27: within one turn every function call the agent issues, those of its
\* responses to tool results included, is run by handle_tool_call and
\* answered before the final text is displayed.
C27_EveryCallExecuted ==
    turnPc = "shown" => issued \subseteq executed

\* the calls of the first response of the turn are executed: they are the
\* first of the turn, as many as were executed
FirstCallsExecuted ==
    turnPc = "shown" =>
        \A c \in issued : c.number <= Cardinality(executed) => c \in executed

====
